---- MODULE Spec2Model ----
(***************************************************************************)
(* A model of the scheduling-chart editor: the UTC date helpers            *)
(* (lib/dateUtils), the task handlers of App and the pointer-gesture       *)
(* handlers of GanttChart.                                                 *)
(*                                                                         *)
(* Representation of values.                                               *)
(*  - A Date (a UTC-midnight instant) is its epoch day, an integer: day 0  *)
(*    is 1970/01/01.  Where the code has "Date | null" the model has a     *)
(*    sequence: <<>> is null and <<t>> is the Date t.                      *)
(*  - A text is a sequence of integers.  <<>> is the empty string.         *)
(*    <<yd, y, m, d>> is the text "Y/MM/DD" whose year is written with yd  *)
(*    digits and has the value y, and whose month and day are written with *)
(*    two digits each and have the values m and d.  <<0>> is a non-empty   *)
(*    text that is not of that form (a half-typed date).                   *)
(*  - A null state (no preview, no drag action, no reorder) is <<>>.       *)
(***************************************************************************)
EXTENDS Integers, Sequences, FiniteSets, TLC

VARIABLES
    tasks,             \* App: the task list (a sequence of task records)
    projectStart,      \* App: project window start (a text)
    projectEnd,        \* App: project window end (a text)
    holidays,          \* App: the non-working weekdays (a set of 0..6)
    columnVisibility,  \* App: which detail columns are rendered
    zoomIndex,         \* App: index into ZOOM_LEVELS
    dragPreview,       \* GanttChart: create session, <<>> or [taskId, start, end]
    dragAction,        \* GanttChart: move/resize session, <<>> or a record
    reorderState,      \* GanttChart: reorder session, <<>> or a record
    pointers,          \* environment: how many pointers are pressed
    previewMoved,      \* history: handlePointerMove has updated the preview of
                       \*          the latest create session
    lastDayOffset,     \* history: <<>> or <<dayOffset>> of the session's last
                       \*          handleDragMove
    call               \* history: <<>> or the last direct application of a
                       \*          helper, a record of its arguments and result

vars == <<tasks, projectStart, projectEnd, holidays, columnVisibility, zoomIndex,
          dragPreview, dragAction, reorderState, pointers, previewMoved,
          lastDayOffset, call>>

Null == <<>>

-----------------------------------------------------------------------------
(* Calendar arithmetic of the JavaScript Date object, in whole UTC days.     *)

\* Day number of the civil date y/m/d (m in 1..12, any integer d): the
\* proleptic Gregorian calendar that Date.UTC and MakeDay implement.
DaysFromCivil(y, m, d) ==
    LET Days(era, yoe, doy) ==
            era * 146097 + (yoe * 365 + yoe \div 4 - yoe \div 100 + doy) - 719468
        Shifted(yy, mp) ==
            Days(yy \div 400, yy - (yy \div 400) * 400, (153 * mp + 2) \div 5 + d - 1)
    IN  Shifted(IF m <= 2 THEN y - 1 ELSE y, IF m > 2 THEN m - 3 ELSE m + 9)

\* The civil date <<year, month, day>> of a day number:
\* getUTCFullYear, getUTCMonth + 1, getUTCDate.
CivilFromDays(t) ==
    LET Civil(y, m, d) == <<y + (IF m <= 2 THEN 1 ELSE 0), m, d>>
        FromMp(y, doy, mp) ==
            Civil(y, IF mp < 10 THEN mp + 3 ELSE mp - 9,
                  doy - (153 * mp + 2) \div 5 + 1)
        FromDoy(y, doy) == FromMp(y, doy, (5 * doy + 2) \div 153)
        FromYoe(era, doe, yoe) ==
            FromDoy(yoe + era * 400,
                    doe - (365 * yoe + yoe \div 4 - yoe \div 100))
        FromDoe(era, doe) ==
            FromYoe(era, doe,
                (doe - doe \div 1460 + doe \div 36524 - doe \div 146096) \div 365)
        FromZ(z) == FromDoe(z \div 146097, z - (z \div 146097) * 146097)
    IN  FromZ(t + 719468)

\* Date.UTC(year, monthIndex, date) in days: a year 0..99 means 1900 + year,
\* a month index outside 0..11 carries into the year, the date carries into
\* the following (or preceding) months.
DateUTC(year, monthIndex, date) ==
    LET yr == IF year >= 0 /\ year <= 99 THEN 1900 + year ELSE year
        ym == yr + monthIndex \div 12
        mn == monthIndex % 12
    IN  DaysFromCivil(ym, mn + 1, 1) + date - 1

\* Date.prototype.getUTCDay: 0 = Sunday .. 6 = Saturday (1970/01/01 was a Thursday).
getUTCDay(t) == (t + 4) % 7

\* Number of decimal digits of a non-negative integer (Number.prototype.toString).
RECURSIVE Digits(_)
Digits(n) == IF n < 10 THEN 1 ELSE 1 + Digits(n \div 10)

-----------------------------------------------------------------------------
(* lib/dateUtils                                                             *)

\* The regular expression /^\d{4}\/\d{2}\/\d{2}$/ on a text.
MatchesDateShape(s) == Len(s) = 4 /\ s[1] = 4

parseUTCDateString(dateStr) ==
    LET Validated(date, c) ==
            IF c[1] # dateStr[2] \/ c[2] # dateStr[3] \/ c[3] # dateStr[4]
            THEN Null
            ELSE <<date>>
        Checked(date) == Validated(date, CivilFromDays(date))
    IN  IF ~MatchesDateShape(dateStr) THEN Null
        ELSE Checked(DateUTC(dateStr[2], dateStr[3] - 1, dateStr[4]))

\* `${year}/${month padded to 2}/${day padded to 2}`: the year is not padded.
formatDateUTC(date) ==
    LET Text(c) == <<Digits(c[1]), c[1], c[2], c[3]>>
    IN  Text(CivilFromDays(date))

addDaysUTC(date, days) == date + days


getDatesInRange(startDate, endDate) ==
    [i \in 1..(IF startDate <= endDate THEN endDate - startDate + 1 ELSE 0)
        |-> startDate + i - 1]

RECURSIVE CountWorkingDaysFrom(_, _, _, _)
CountWorkingDaysFrom(current, endDate, nonWorkingDays, count) ==
    IF current <= endDate
    THEN CountWorkingDaysFrom(current + 1, endDate, nonWorkingDays,
             IF getUTCDay(current) \notin nonWorkingDays THEN count + 1 ELSE count)
    ELSE count

\* A calculateWorkingDays that counts every day of the range.
calculateCalendarDays(startDate, endDate, nonWorkingDays) ==
    IF endDate < startDate THEN 0 ELSE endDate - startDate + 1

calculateWorkingDays(startDate, endDate, nonWorkingDays) ==
    IF endDate < startDate THEN 0
    ELSE CountWorkingDaysFrom(startDate, endDate, nonWorkingDays, 0)

\* while (nonWorkingDays.has(d.getUTCDay())) d.setUTCDate(d.getUTCDate() + step)
RECURSIVE SkipNonWorking(_, _, _)
SkipNonWorking(date, step, nonWorkingDays) ==
    IF getUTCDay(date) \in nonWorkingDays
    THEN SkipNonWorking(date + step, step, nonWorkingDays)
    ELSE date

\* An AdvanceWorking that does not count the start day: while (added < days).
RECURSIVE AdvanceWorkingFromZero(_, _, _, _)
AdvanceWorkingFromZero(result, added, days, nonWorkingDays) ==
    IF added < days
    THEN AdvanceWorkingFromZero(result + 1,
             IF getUTCDay(result + 1) \notin nonWorkingDays THEN added + 1 ELSE added,
             days, nonWorkingDays)
    ELSE result

\* while (added < days - 1) { result++; if (working(result)) added++ }
RECURSIVE AdvanceWorking(_, _, _, _)
AdvanceWorking(result, added, days, nonWorkingDays) ==
    IF added < days - 1
    THEN AdvanceWorking(result + 1,
             IF getUTCDay(result + 1) \notin nonWorkingDays THEN added + 1 ELSE added,
             days, nonWorkingDays)
    ELSE result

\* An addWorkingDays that counts from the start day as it is given.
addWorkingDaysNoSnap(startDate, days, nonWorkingDays) ==
    IF days = 0 THEN SkipNonWorking(startDate, -1, nonWorkingDays)
    ELSE IF days < 1 THEN startDate
    ELSE AdvanceWorking(startDate, 0, days, nonWorkingDays)

\* An addWorkingDays that treats 0 days as it treats negative numbers of days.
addWorkingDaysFloorsZero(startDate, days, nonWorkingDays) ==
    IF days < 1 THEN startDate
    ELSE AdvanceWorking(SkipNonWorking(startDate, 1, nonWorkingDays), 0, days,
                        nonWorkingDays)

addWorkingDays(startDate, days, nonWorkingDays) ==
    IF days = 0 THEN SkipNonWorking(startDate, -1, nonWorkingDays)
    ELSE IF days < 1 THEN startDate
    ELSE AdvanceWorking(SkipNonWorking(startDate, 1, nonWorkingDays), 0, days,
                        nonWorkingDays)

\* while (remaining > 0) { result += direction; if (working(result)) remaining-- }
RECURSIVE StepWorking(_, _, _, _)
StepWorking(result, remaining, direction, nonWorkingDays) ==
    IF remaining > 0
    THEN StepWorking(result + direction,
             IF getUTCDay(result + direction) \notin nonWorkingDays
             THEN remaining - 1 ELSE remaining,
             direction, nonWorkingDays)
    ELSE result

addOrSubtractWorkingDays(startDate, days, nonWorkingDays) ==
    LET remaining == IF days < 0 THEN -days ELSE days
        direction == IF days > 0 THEN 1 ELSE IF days < 0 THEN -1 ELSE 0
    IN  IF direction = 0 THEN startDate
        ELSE StepWorking(startDate, remaining, direction, nonWorkingDays)

-----------------------------------------------------------------------------
(* App: the task handlers.  Each is the state updater it passes to setTasks, *)
(* as an operator from the current list to the next one.                     *)

handleTaskChange(ts, id, field, value) ==
    [i \in DOMAIN ts |->
        IF ts[i].id = id THEN [ts[i] EXCEPT ![field] = value] ELSE ts[i]]

\* newDurationStr is <<>> (a text parseInt reads as NaN) or <<n>> (the integer n).
\* A handleDurationChange that counts calendar days from the start date.
handleDurationChangeByCalendarDays(ts, task, newDurationStr) ==
    LET Extend(startDate) ==
            IF startDate # Null
            THEN handleTaskChange(ts, task.id, "endDate",
                     formatDateUTC(addDaysUTC(startDate[1], newDurationStr[1] - 1)))
            ELSE ts
    IN  IF newDurationStr = <<>> \/ newDurationStr[1] < 1 THEN ts
        ELSE Extend(parseUTCDateString(task.startDate))

handleDurationChange(ts, task, newDurationStr) ==
    LET Extend(startDate) ==
            IF startDate # Null
            THEN handleTaskChange(ts, task.id, "endDate",
                     formatDateUTC(addWorkingDays(startDate[1], newDurationStr[1],
                                                  holidays)))
            ELSE ts
    IN  IF newDurationStr = <<>> \/ newDurationStr[1] < 1 THEN ts
        ELSE Extend(parseUTCDateString(task.startDate))

\* A handleTaskDateSet that stores the pair in the order it is given.
handleTaskDateSetNoSwap(ts, taskId, startDateStr, endDateStr) ==
    LET Store(finalStartDate, finalEndDate) ==
            [i \in DOMAIN ts |->
                IF ts[i].id = taskId
                THEN [ts[i] EXCEPT !.startDate = finalStartDate,
                                   !.endDate = finalEndDate]
                ELSE ts[i]]
        Set(d1, d2) ==
            IF d1 # Null /\ d2 # Null THEN Store(startDateStr, endDateStr) ELSE ts
    IN  Set(parseUTCDateString(startDateStr), parseUTCDateString(endDateStr))

\* A handleTaskDateSet that ignores a pair of equal dates.
handleTaskDateSetSkipsSameDay(ts, taskId, startDateStr, endDateStr) ==
    LET Store(finalStartDate, finalEndDate) ==
            [i \in DOMAIN ts |->
                IF ts[i].id = taskId
                THEN [ts[i] EXCEPT !.startDate = finalStartDate,
                                   !.endDate = finalEndDate]
                ELSE ts[i]]
        Set(d1, d2) ==
            IF d1 # Null /\ d2 # Null /\ d1 # d2
            THEN Store(IF d1[1] < d2[1] THEN startDateStr ELSE endDateStr,
                       IF d1[1] < d2[1] THEN endDateStr ELSE startDateStr)
            ELSE ts
    IN  Set(parseUTCDateString(startDateStr), parseUTCDateString(endDateStr))

handleTaskDateSet(ts, taskId, startDateStr, endDateStr) ==
    LET Store(finalStartDate, finalEndDate) ==
            [i \in DOMAIN ts |->
                IF ts[i].id = taskId
                THEN [ts[i] EXCEPT !.startDate = finalStartDate,
                                   !.endDate = finalEndDate]
                ELSE ts[i]]
        Set(d1, d2) ==
            IF d1 # Null /\ d2 # Null
            THEN Store(IF d1[1] < d2[1] THEN startDateStr ELSE endDateStr,
                       IF d1[1] < d2[1] THEN endDateStr ELSE startDateStr)
            ELSE ts
    IN  Set(parseUTCDateString(startDateStr), parseUTCDateString(endDateStr))

\* A case 'move' that does not hold the shifted start at the window start.
MoveDatesNoStartClamp(initialStartDate, initialEndDate, dayOffset, pStart, pEnd) ==
    LET Resolve(durationInWorkingDays) ==
            LET \* the last five lines of the case, from newStartDate on
                Finish(newStartDate) ==
                    LET Clamp(newEndDate) ==
                            <<newStartDate,
                              IF newEndDate < newStartDate THEN newStartDate
                              ELSE newEndDate>>
                        CutAtEnd(newEndDate) ==
                            Clamp(IF newEndDate > pEnd THEN pEnd ELSE newEndDate)
                    IN  CutAtEnd(addWorkingDays(newStartDate, durationInWorkingDays,
                                                holidays))
                \* the branch taken when potentialEndDate lies past pEnd
                BackFromEnd(potentialStartDate) ==
                    Finish(IF potentialStartDate < pStart THEN pStart
                           ELSE potentialStartDate)
                Place(potentialStartDate) ==
                    IF addWorkingDays(potentialStartDate, durationInWorkingDays,
                                      holidays) > pEnd
                    THEN BackFromEnd(addOrSubtractWorkingDays(
                             pEnd, -(durationInWorkingDays - 1), holidays))
                    ELSE Finish(potentialStartDate)
                Shift(potentialStartDate) == Place(potentialStartDate)
            IN  Shift(addDaysUTC(initialStartDate, dayOffset))
        OrOne(counted) == Resolve(IF counted = 0 THEN 1 ELSE counted)
    IN  OrOne(calculateWorkingDays(initialStartDate, initialEndDate, holidays))

\* case 'move' of handleTaskDragUpdate: <<newStartDate, newEndDate>>.
MoveDates(initialStartDate, initialEndDate, dayOffset, pStart, pEnd) ==
    LET Resolve(durationInWorkingDays) ==
            LET \* the last five lines of the case, from newStartDate on
                Finish(newStartDate) ==
                    LET Clamp(newEndDate) ==
                            <<newStartDate,
                              IF newEndDate < newStartDate THEN newStartDate
                              ELSE newEndDate>>
                        CutAtEnd(newEndDate) ==
                            Clamp(IF newEndDate > pEnd THEN pEnd ELSE newEndDate)
                    IN  CutAtEnd(addWorkingDays(newStartDate, durationInWorkingDays,
                                                holidays))
                \* the branch taken when potentialEndDate lies past pEnd
                BackFromEnd(potentialStartDate) ==
                    Finish(IF potentialStartDate < pStart THEN pStart
                           ELSE potentialStartDate)
                Place(potentialStartDate) ==
                    IF addWorkingDays(potentialStartDate, durationInWorkingDays,
                                      holidays) > pEnd
                    THEN BackFromEnd(addOrSubtractWorkingDays(
                             pEnd, -(durationInWorkingDays - 1), holidays))
                    ELSE Finish(potentialStartDate)
                Shift(potentialStartDate) ==
                    Place(IF potentialStartDate < pStart THEN pStart
                          ELSE potentialStartDate)
            IN  Shift(addDaysUTC(initialStartDate, dayOffset))
        OrOne(counted) == Resolve(IF counted = 0 THEN 1 ELSE counted)
    IN  OrOne(calculateWorkingDays(initialStartDate, initialEndDate, holidays))

\* case 'resize-start' of handleTaskDragUpdate.
ResizeStartDates(initialStartDate, initialEndDate, dayOffset, pStart, pEnd) ==
    LET Ordered(newStartDate, newEndDate) ==
            IF newStartDate > newEndDate
            THEN <<newEndDate, newStartDate>>
            ELSE <<newStartDate, newEndDate>>
        Clamped(newStartDate) ==
            Ordered(IF newStartDate < pStart THEN pStart ELSE newStartDate,
                    initialEndDate)
    IN  Clamped(addDaysUTC(initialStartDate, dayOffset))

\* A resize-end that stops at the fixed endpoint instead of swapping.
ResizeEndStopsAtStart(initialStartDate, initialEndDate, dayOffset, pStart, pEnd) ==
    LET Ordered(newStartDate, newEndDate) ==
            IF newEndDate < newStartDate
            THEN <<newStartDate, newStartDate>>
            ELSE <<newStartDate, newEndDate>>
        Clamped(newEndDate) ==
            Ordered(initialStartDate,
                    IF newEndDate > pEnd THEN pEnd ELSE newEndDate)
    IN  Clamped(addDaysUTC(initialEndDate, dayOffset))

\* case 'resize-end' of handleTaskDragUpdate.
ResizeEndDates(initialStartDate, initialEndDate, dayOffset, pStart, pEnd) ==
    LET Ordered(newStartDate, newEndDate) ==
            IF newEndDate < newStartDate
            THEN <<newEndDate, newStartDate>>
            ELSE <<newStartDate, newEndDate>>
        Clamped(newEndDate) ==
            Ordered(initialStartDate,
                    IF newEndDate > pEnd THEN pEnd ELSE newEndDate)
    IN  Clamped(addDaysUTC(initialEndDate, dayOffset))

\* The switch of handleTaskDragUpdate.
DragDates(actionType, initialStartDate, initialEndDate, dayOffset, pStart, pEnd) ==
    CASE actionType = "move" ->
           MoveDates(initialStartDate, initialEndDate, dayOffset, pStart, pEnd)
      [] actionType = "resize-start" ->
           ResizeStartDates(initialStartDate, initialEndDate, dayOffset, pStart, pEnd)
      [] actionType = "resize-end" ->
           ResizeEndDates(initialStartDate, initialEndDate, dayOffset, pStart, pEnd)

\* A handleTaskDragUpdate that writes the new dates into every task.
handleTaskDragUpdateEveryTask(ts, taskId, actionType, initialStartDate, initialEndDate, dayOffset) ==
    LET Store(new) ==
            [i \in DOMAIN ts |->
                [ts[i] EXCEPT !.startDate = formatDateUTC(new[1]),
                              !.endDate = formatDateUTC(new[2])]]
        Update(pStart, pEnd) ==
            IF pStart = Null \/ pEnd = Null THEN ts
            ELSE Store(DragDates(actionType, initialStartDate, initialEndDate,
                                 dayOffset, pStart[1], pEnd[1]))
    IN  Update(parseUTCDateString(projectStart), parseUTCDateString(projectEnd))

handleTaskDragUpdate(ts, taskId, actionType, initialStartDate, initialEndDate, dayOffset) ==
    LET Store(new) ==
            [i \in DOMAIN ts |->
                IF ts[i].id = taskId
                THEN [ts[i] EXCEPT !.startDate = formatDateUTC(new[1]),
                                   !.endDate = formatDateUTC(new[2])]
                ELSE ts[i]]
        Update(pStart, pEnd) ==
            IF pStart = Null \/ pEnd = Null THEN ts
            ELSE Store(DragDates(actionType, initialStartDate, initialEndDate,
                                 dayOffset, pStart[1], pEnd[1]))
    IN  Update(parseUTCDateString(projectStart), parseUTCDateString(projectEnd))

\* A handleTaskReorder that reinserts at dropIndex as given.
handleTaskReorderNoAdjust(ts, draggedTaskId, dropIndex) ==
    LET Insert(removed, draggedTask, at) ==
            [i \in 1..Len(ts) |->
                IF i <= at THEN removed[i]
                ELSE IF i = at + 1 THEN draggedTask
                ELSE removed[i - 1]]
        Splice(removed, draggedTask, adjustedDropIndex) ==
            Insert(removed, draggedTask,
                   IF adjustedDropIndex > Len(removed) THEN Len(removed)
                   ELSE adjustedDropIndex)
        Move(draggedIndex) ==
            Splice([i \in 1..(Len(ts) - 1) |->
                       IF i <= draggedIndex THEN ts[i] ELSE ts[i + 1]],
                   ts[draggedIndex + 1], dropIndex)
    IN  IF \A i \in DOMAIN ts : ts[i].id # draggedTaskId THEN ts
        ELSE Move((CHOOSE i \in DOMAIN ts :
                      /\ ts[i].id = draggedTaskId
                      /\ \A j \in 1..(i - 1) : ts[j].id # draggedTaskId) - 1)

\* newTasks.splice(draggedIndex, 1); newTasks.splice(adjustedDropIndex, 0, draggedTask)
handleTaskReorder(ts, draggedTaskId, dropIndex) ==
    LET Insert(removed, draggedTask, at) ==
            [i \in 1..Len(ts) |->
                IF i <= at THEN removed[i]
                ELSE IF i = at + 1 THEN draggedTask
                ELSE removed[i - 1]]
        \* splice clamps a start index past the end of the array to its length
        Splice(removed, draggedTask, adjustedDropIndex) ==
            Insert(removed, draggedTask,
                   IF adjustedDropIndex > Len(removed) THEN Len(removed)
                   ELSE adjustedDropIndex)
        Move(draggedIndex) ==
            Splice([i \in 1..(Len(ts) - 1) |->
                       IF i <= draggedIndex THEN ts[i] ELSE ts[i + 1]],
                   ts[draggedIndex + 1],
                   IF dropIndex > draggedIndex THEN dropIndex - 1 ELSE dropIndex)
    IN  IF \A i \in DOMAIN ts : ts[i].id # draggedTaskId THEN ts
        ELSE Move((CHOOSE i \in DOMAIN ts :
                      /\ ts[i].id = draggedTaskId
                      /\ \A j \in 1..(i - 1) : ts[j].id # draggedTaskId) - 1)

-----------------------------------------------------------------------------
(* GanttChart: derived values of a render.                                   *)

ZOOM_LEVELS == <<8, 12, 18, 24, 40, 64>>

dayWidth == ZOOM_LEVELS[zoomIndex + 1]

rowHeight == 40

dateArray ==
    LET Range(start, end) ==
            IF start = Null \/ end = Null \/ start[1] > end[1] THEN <<>>
            ELSE getDatesInRange(start[1], end[1])
    IN  Range(parseUTCDateString(projectStart), parseUTCDateString(projectEnd))

getTaskDuration(startDateStr, endDateStr) ==
    LET Count(start, end) ==
            IF start = Null \/ end = Null THEN 0
            ELSE calculateWorkingDays(start[1], end[1], holidays)
    IN  Count(parseUTCDateString(startDateStr), parseUTCDateString(endDateStr))

\* A WalkSegments that closes a segment on the non-working day that ends it.
RECURSIVE WalkSegmentsClosesLate(_, _, _, _)
WalkSegmentsClosesLate(current, end, segmentStart, segments) ==
    IF current <= end
    THEN IF getUTCDay(current) \notin holidays /\ segmentStart = Null
         THEN WalkSegmentsClosesLate(current + 1, end, <<current>>, segments)
         ELSE IF getUTCDay(current) \in holidays /\ segmentStart # Null
         THEN WalkSegmentsClosesLate(current + 1, end, Null,
                  Append(segments, [startDate |-> segmentStart[1],
                                    endDate |-> current]))
         ELSE WalkSegmentsClosesLate(current + 1, end, segmentStart, segments)
    ELSE IF segmentStart # Null
         THEN Append(segments, [startDate |-> segmentStart[1], endDate |-> end])
         ELSE segments

\* The while loop of getTaskSegments and the push after it.
RECURSIVE WalkSegments(_, _, _, _)
WalkSegments(current, end, segmentStart, segments) ==
    IF current <= end
    THEN IF getUTCDay(current) \notin holidays /\ segmentStart = Null
         THEN WalkSegments(current + 1, end, <<current>>, segments)
         ELSE IF getUTCDay(current) \in holidays /\ segmentStart # Null
         THEN WalkSegments(current + 1, end, Null,
                  Append(segments, [startDate |-> segmentStart[1],
                                    endDate |-> current - 1]))
         ELSE WalkSegments(current + 1, end, segmentStart, segments)
    ELSE IF segmentStart # Null
         THEN Append(segments, [startDate |-> segmentStart[1], endDate |-> end])
         ELSE segments

getTaskSegments(task) ==
    LET Walk(start, end) ==
            IF start = Null \/ end = Null \/ end[1] < start[1] THEN <<>>
            ELSE WalkSegments(start[1], end[1], Null, <<>>)
    IN  Walk(parseUTCDateString(task.startDate), parseUTCDateString(task.endDate))

\* A getGridPosition that looks up the task's own dates in the day index.
getGridPositionUnclamped(start, end) ==
    LET FindIndex(dates, t) ==
            IF \E i \in DOMAIN dates : dates[i] = t
            THEN (CHOOSE i \in DOMAIN dates : dates[i] = t) - 1
            ELSE -1
        Span(startIndex, endIndex) ==
            IF startIndex = -1 \/ endIndex = -1 THEN Null
            ELSE <<startIndex, endIndex>>
        Position(dates) ==
            IF Len(dates) = 0 \/ end < start THEN Null
            ELSE Span(FindIndex(dates, start), FindIndex(dates, end))
    IN  Position(dateArray)

\* <<>> is the style with opacity 0; <<startIndex, endIndex>> is the style
\* with gridColumn "startIndex + 1 / endIndex + 2".
getGridPosition(start, end) ==
    LET FindIndex(dates, t) ==
            IF \E i \in DOMAIN dates : dates[i] = t
            THEN (CHOOSE i \in DOMAIN dates :
                      dates[i] = t /\ \A j \in 1..(i - 1) : dates[j] # t) - 1
            ELSE -1
        Span(startIndex, endIndex) ==
            IF startIndex = -1 \/ endIndex = -1 THEN Null
            ELSE <<startIndex, endIndex>>
        Render(dates, renderStart, renderEnd) ==
            IF renderEnd < renderStart THEN Null
            ELSE Span(FindIndex(dates, renderStart), FindIndex(dates, renderEnd))
        Position(dates) ==
            IF Len(dates) = 0 \/ end < start THEN Null
            ELSE Render(dates,
                        IF start > dates[1] THEN start ELSE dates[1],
                        IF end < dates[Len(dates)] THEN end ELSE dates[Len(dates)])
    IN  Position(dateArray)

\* A getDateFromX that reads the day index without the bounds check: past its
\* end it returns the last day.
getDateFromXUnchecked(x) ==
    LET Lookup(dates, dateIndex) ==
            IF dateIndex >= 0 /\ dateIndex < Len(dates)
            THEN <<dates[dateIndex + 1]>>
            ELSE <<dates[Len(dates)]>>
        Locate(dates) ==
            IF Len(dates) = 0 THEN Null
            ELSE IF dayWidth <= 0 \/ x < 0 THEN Null
            ELSE Lookup(dates, x \div dayWidth)
    IN  Locate(dateArray)

\* x is the pointer's clientX less the left edge of the timeline (relativeX).
getDateFromX(x) ==
    LET Lookup(dates, dateIndex) ==
            IF dateIndex >= 0 /\ dateIndex < Len(dates)
            THEN <<dates[dateIndex + 1]>>
            ELSE Null
        Locate(dates) ==
            IF Len(dates) = 0 THEN Null
            ELSE IF dayWidth <= 0 \/ x < 0 THEN Null
            ELSE Lookup(dates, x \div dayWidth)
    IN  Locate(dateArray)

\* The task bar, with its move layer and its two resize handles, is rendered
\* only for a task whose dates parse, are not inverted and hold a working day.
BarRendered(task) ==
    LET Shown(taskStart, taskEnd) ==
            /\ taskStart # Null
            /\ taskEnd # Null
            /\ ~(taskEnd[1] < taskStart[1])
            /\ getTaskDuration(task.startDate, task.endDate) # 0
    IN  Shown(parseUTCDateString(task.startDate), parseUTCDateString(task.endDate))

\* Math.round(deltaX / dayWidth): halves round toward plus infinity.
DayOffset(clientX, initialX) ==
    (2 * (clientX - initialX) + dayWidth) \div (2 * dayWidth)

\* handleReorderMove's newDropIndex for a pointer at height y, measured from
\* the top of the first task row; row i (from 0) spans i*rowHeight up to
\* (i+1)*rowHeight.  <<>> is null.
NewDropIndex(ts, y) ==
    LET Around(targetIndex) ==
            IF y < targetIndex * rowHeight + rowHeight \div 2
            THEN <<targetIndex>> ELSE <<targetIndex + 1>>
        Target(hit) ==
            IF hit # {}
            THEN Around(CHOOSE i \in hit : \A j \in hit : i <= j)
            ELSE IF Len(ts) > 0 /\ y < 0 THEN <<0>>
            ELSE IF Len(ts) > 0 /\ y > Len(ts) * rowHeight THEN <<Len(ts)>>
            ELSE Null
    IN  Target({i \in 0..(Len(ts) - 1) :
                   y >= i * rowHeight /\ y <= (i + 1) * rowHeight})

-----------------------------------------------------------------------------
(* Bounds of the model and the inputs the actions draw from.                 *)

\* Days in the project window of the initial states.
WindowLen == 3

\* Dates a drag may write lie at most this many days outside the window.
DateMargin == 1

\* The pointer is sampled up to this many day widths outside the timeline.
PointerMargin == 1

\* Largest number typed into the duration field.
MaxDuration == 3

\* The first day of the project window: Thursday 2024/01/04.
BaseDay == DaysFromCivil(2024, 1, 4)

\* Pointer positions of a pointer-move: every half day width over the
\* timeline and as far to its left (over the details column).
PointerXs ==
    {k * (dayWidth \div 2) :
        k \in (-2 * (WindowLen + PointerMargin))..(2 * (WindowLen + PointerMargin))}

\* Pointer positions of a pointer-down on a timeline row: the middle of every
\* day cell, and of one cell's width before and after the timeline.
RowDownXs == {k * dayWidth + dayWidth \div 2 : k \in (-1)..WindowLen}

\* Pointer positions of a pointer-down on a task bar.  The bar's place on the
\* screen is not modelled: only clientX - initialX enters the handlers.
BarDownXs == {dayWidth \div 2}

\* Pointer heights of a pointer-move: above the first row, the upper and the
\* lower quarter of every row, below the last row.
PointerYs(ts) ==
    {-1, Len(ts) * rowHeight + 1}
        \cup {i * rowHeight + rowHeight \div 4 : i \in 0..(Len(ts) - 1)}
        \cup {i * rowHeight + 3 * (rowHeight \div 4) : i \in 0..(Len(ts) - 1)}

\* Texts typed into a date field: nothing, a half-typed date, the first and
\* the last day of the initial window.
FieldTexts ==
    {<<>>, <<0>>, formatDateUTC(BaseDay), formatDateUTC(BaseDay + WindowLen - 1)}

\* Texts typed into the duration field: <<>> is one parseInt reads as NaN.
DurationTexts == {<<>>} \cup {<<n>> : n \in 0..MaxDuration}

InUniverse(date) ==
    /\ date >= BaseDay - DateMargin
    /\ date <= BaseDay + WindowLen - 1 + DateMargin

\* Every date of every task parses to a day the model covers, or does not parse.
TasksInUniverse(ts) ==
    LET Covered(date) == date # Null => InUniverse(date[1])
    IN  \A i \in DOMAIN ts :
            /\ Covered(parseUTCDateString(ts[i].startDate))
            /\ Covered(parseUTCDateString(ts[i].endDate))

-----------------------------------------------------------------------------
(* GanttChart: the pointer handlers.                                         *)

\* A handlePointerDownForCreate without the check of the non-working days.
handlePointerDownOnAnyDay(taskId, x) ==
    LET Anchor(startDateStr) ==
            [taskId |-> taskId, start |-> startDateStr, end |-> startDateStr]
        Down(startDate) ==
            IF startDate # Null
            THEN Anchor(formatDateUTC(startDate[1]))
            ELSE dragPreview
    IN  Down(getDateFromX(x))

\* The dragPreview that handlePointerDownForCreate leaves.
handlePointerDownForCreate(taskId, x) ==
    LET Anchor(startDateStr) ==
            [taskId |-> taskId, start |-> startDateStr, end |-> startDateStr]
        Down(startDate) ==
            IF startDate # Null /\ getUTCDay(startDate[1]) \notin holidays
            THEN Anchor(formatDateUTC(startDate[1]))
            ELSE dragPreview
    IN  Down(getDateFromX(x))

\* onMouseDown / onTouchStart of the timeline row of task i.
RowPointerDown(i, x) ==
    /\ dragPreview' = IF tasks[i].startDate = <<>> /\ tasks[i].endDate = <<>>
                      THEN handlePointerDownForCreate(tasks[i].id, x)
                      ELSE dragPreview
    /\ pointers' = pointers + 1
    /\ previewMoved' = (previewMoved /\ dragPreview' = dragPreview)
    /\ UNCHANGED <<call, tasks, projectStart, projectEnd, holidays, columnVisibility,
                   zoomIndex, dragAction, reorderState, lastDayOffset>>

\* onMouseDown / onTouchStart of the bar of task i (type "move") or of one of
\* its handles (type "resize-start", "resize-end").
handleDragStart(i, type, x) ==
    /\ BarRendered(tasks[i])
    /\ dragAction' =
         [type |-> type, taskId |-> tasks[i].id, initialX |-> x,
          initialStartDate |-> parseUTCDateString(tasks[i].startDate)[1],
          initialEndDate |-> parseUTCDateString(tasks[i].endDate)[1]]
    /\ pointers' = pointers + 1
    /\ lastDayOffset' = Null
    /\ UNCHANGED <<call, tasks, projectStart, projectEnd, holidays, columnVisibility,
                   zoomIndex, dragPreview, reorderState, previewMoved>>

\* onMouseDown / onTouchStart of the grip of task i.
handleReorderStart(i) ==
    /\ reorderState' = [draggedTaskId |-> tasks[i].id, dropIndex |-> Null]
    /\ pointers' = pointers + 1
    /\ UNCHANGED <<call, tasks, projectStart, projectEnd, holidays, columnVisibility,
                   zoomIndex, dragPreview, dragAction, previewMoved, lastDayOffset>>

\* The dragPreview that handlePointerMove leaves (its dragPreview branch).
handlePointerMove(x) ==
    LET Update(currentDate) ==
            IF currentDate # Null
            THEN [dragPreview EXCEPT !.end = formatDateUTC(currentDate[1])]
            ELSE dragPreview
    IN  Update(getDateFromX(x))

\* The type handleDragMove leaves in dragAction: it reads the task list of the
\* render the handler was created in, the list before this move's update.
DragTypeAfterMove ==
    LET Flipped(newStart, newEnd) ==
            IF newStart # Null /\ newEnd # Null /\ newStart[1] > newEnd[1]
            THEN (IF dragAction.type = "resize-start" THEN "resize-end"
                  ELSE IF dragAction.type = "resize-end" THEN "resize-start"
                  ELSE dragAction.type)
            ELSE dragAction.type
        Check(task) ==
            Flipped(parseUTCDateString(task.startDate),
                    parseUTCDateString(task.endDate))
        Find(found) ==
            IF found = {} THEN dragAction.type
            ELSE Check(tasks[CHOOSE i \in found : \A j \in found : i <= j])
    IN  Find({i \in DOMAIN tasks : tasks[i].id = dragAction.taskId})

\* The task list handleDragMove leaves, through onTaskDragUpdate.
handleDragMove(x) ==
    handleTaskDragUpdate(tasks, dragAction.taskId, dragAction.type,
        dragAction.initialStartDate, dragAction.initialEndDate,
        DayOffset(x, dragAction.initialX))

\* One mousemove / touchmove: the row's handlePointerMove when the event
\* reaches a timeline row, and the window listeners handleDragMove and
\* handleReorderMove of the sessions that are active.
PointerMove(x, y, overRow) ==
    /\ dragPreview' = IF dragPreview # Null /\ overRow
                      THEN handlePointerMove(x) ELSE dragPreview
    /\ tasks' = IF dragAction # Null /\ dayWidth > 0
                THEN handleDragMove(x) ELSE tasks
    /\ TasksInUniverse(tasks')
    /\ dragAction' = IF dragAction # Null /\ dayWidth > 0
                     THEN [dragAction EXCEPT !.type = DragTypeAfterMove]
                     ELSE dragAction
    /\ reorderState' = IF reorderState # Null
                       THEN [reorderState EXCEPT !.dropIndex = NewDropIndex(tasks, y)]
                       ELSE reorderState
    /\ previewMoved' = (previewMoved
                         \/ (dragPreview # Null /\ overRow /\ getDateFromX(x) # Null))
    /\ lastDayOffset' = IF dragAction # Null /\ dayWidth > 0
                        THEN <<DayOffset(x, dragAction.initialX)>>
                        ELSE lastDayOffset
    /\ UNCHANGED <<call, projectStart, projectEnd, holidays, columnVisibility, zoomIndex,
                   pointers>>

\* The task list one mouseup / touchend leaves: handlePointerUpGlobal commits
\* the preview, handleReorderEnd a numeric drop index.
TasksAfterPointerUp ==
    LET committed ==
            IF dragPreview # Null
            THEN handleTaskDateSet(tasks, dragPreview.taskId, dragPreview.start,
                                   dragPreview.end)
            ELSE tasks
    IN  IF reorderState # Null /\ reorderState.dropIndex # Null
        THEN handleTaskReorder(committed, reorderState.draggedTaskId,
                               reorderState.dropIndex[1])
        ELSE committed

\* A pointer-up without handleDragEnd.
PointerUpWithoutDragEnd ==
    /\ pointers > 0
    /\ tasks' = TasksAfterPointerUp
    /\ dragPreview' = Null
    /\ reorderState' = Null
    /\ pointers' = pointers - 1
    /\ UNCHANGED <<call, projectStart, projectEnd, holidays, columnVisibility, zoomIndex,
                   dragAction, previewMoved, lastDayOffset>>

\* One mouseup / touchend on the window: handlePointerUpGlobal, handleDragEnd
\* and handleReorderEnd, each registered while its session is active.
PointerUp ==
    /\ pointers > 0
    /\ tasks' = TasksAfterPointerUp
    /\ dragPreview' = Null
    /\ dragAction' = Null
    /\ reorderState' = Null
    /\ pointers' = pointers - 1
    /\ lastDayOffset' = Null
    /\ UNCHANGED previewMoved
    /\ UNCHANGED <<call, projectStart, projectEnd, holidays, columnVisibility, zoomIndex>>

\* onChange of the start or end date field of task i.
TaskDateFieldChange(i, field, value) ==
    /\ columnVisibility[field]
    /\ tasks' = handleTaskChange(tasks, tasks[i].id, field, value)
    /\ UNCHANGED <<call, projectStart, projectEnd, holidays, columnVisibility, zoomIndex,
                   dragPreview, dragAction, reorderState, pointers, previewMoved,
                   lastDayOffset>>

\* onChange of the duration field of task i.
DurationFieldChange(i, newDurationStr) ==
    /\ columnVisibility.duration
    /\ tasks' = handleDurationChange(tasks, tasks[i], newDurationStr)
    /\ TasksInUniverse(tasks')
    /\ UNCHANGED <<call, projectStart, projectEnd, holidays, columnVisibility, zoomIndex,
                   dragPreview, dragAction, reorderState, pointers, previewMoved,
                   lastDayOffset>>

-----------------------------------------------------------------------------
(* Specifications.                                                           *)

DragTypes == {"move", "resize-start", "resize-end"}

\* The initial task list of App, less its third task (deleted by
\* handleDeleteTask), in a short project window chosen in the header fields,
\* with both date columns switched on in the settings.
InitialTasks ==
    <<[id |-> "1", name |-> "Task 1", assignee |-> "", startDate |-> <<>>,
       endDate |-> <<>>, progress |-> 0, manHours |-> 0],
      [id |-> "2", name |-> "Task 2", assignee |-> "", startDate |-> <<>>,
       endDate |-> <<>>, progress |-> 0, manHours |-> 0]>>

Init ==
    /\ tasks = InitialTasks
    /\ projectStart = formatDateUTC(BaseDay)
    /\ projectEnd = formatDateUTC(BaseDay + WindowLen - 1)
    /\ holidays = {0, 6}
    /\ columnVisibility = [assignee |-> TRUE, startDate |-> TRUE, endDate |-> TRUE,
                           duration |-> TRUE, progress |-> TRUE, manHours |-> FALSE]
    /\ zoomIndex = 3
    /\ dragPreview = Null
    /\ dragAction = Null
    /\ reorderState = Null
    /\ pointers = 0
    /\ previewMoved = FALSE
    /\ lastDayOffset = Null
    /\ call = Null

\* The same with one task left in the list.
InitOne ==
    /\ tasks = <<InitialTasks[1]>>
    /\ projectStart = formatDateUTC(BaseDay)
    /\ projectEnd = formatDateUTC(BaseDay + WindowLen - 1)
    /\ holidays = {0, 6}
    /\ columnVisibility = [assignee |-> TRUE, startDate |-> TRUE, endDate |-> TRUE,
                           duration |-> TRUE, progress |-> TRUE, manHours |-> FALSE]
    /\ zoomIndex = 3
    /\ dragPreview = Null
    /\ dragAction = Null
    /\ reorderState = Null
    /\ pointers = 0
    /\ previewMoved = FALSE
    /\ lastDayOffset = Null
    /\ call = Null

\* A pointer goes down while fewer than maxPointers are pressed.
PointerDown(maxPointers) ==
    \/ \E i \in DOMAIN tasks, x \in RowDownXs :
           pointers < maxPointers /\ RowPointerDown(i, x)
    \/ \E i \in DOMAIN tasks, type \in DragTypes, x \in BarDownXs :
           pointers < maxPointers /\ handleDragStart(i, type, x)
    \/ \E i \in DOMAIN tasks :
           pointers < maxPointers /\ handleReorderStart(i)

Moves ==
    \E x \in (IF dragPreview # Null \/ dragAction # Null THEN PointerXs ELSE {0}) :
        \E y \in (IF reorderState # Null THEN PointerYs(tasks) ELSE {0}) :
            \E overRow \in (IF dragPreview # Null THEN BOOLEAN ELSE {TRUE}) :
                PointerMove(x, y, overRow)

FieldEdits ==
    \/ \E i \in DOMAIN tasks, field \in {"startDate", "endDate"}, value \in FieldTexts :
           TaskDateFieldChange(i, field, value)
    \/ \E i \in DOMAIN tasks, str \in DurationTexts : DurationFieldChange(i, str)

\* One pointer (a mouse): a pointer-down arrives only when none is pressed.
Next ==
    \/ PointerDown(1)
    \/ Moves
    \/ PointerUp

Spec == Init /\ [][Next]_vars

\* The same gestures on a list of one task.
SpecOne == InitOne /\ [][Next]_vars

\* Largest number of pointers pressed at once on a touch screen.
MaxTouchPoints == 2

\* Touch, or a mouse with several buttons: a pointer-down may arrive while
\* another pointer is pressed.
NextTouch ==
    \/ PointerDown(MaxTouchPoints)
    \/ Moves
    \/ PointerUp

SpecTouch == InitOne /\ [][NextTouch]_vars

\* One pointer and the keyboard: the date and duration fields are edited
\* between and during gestures.
NextFields ==
    \/ PointerDown(1)
    \/ Moves
    \/ PointerUp
    \/ FieldEdits

SpecFields == InitOne /\ [][NextFields]_vars

-----------------------------------------------------------------------------
(* Properties of the move and resize gestures.                               *)

\* The first task of ts with this id (tasks.find).
TaskById(ts, id) ==
    ts[CHOOSE i \in DOMAIN ts : ts[i].id = id /\ \A j \in 1..(i - 1) : ts[j].id # id]

\* <<start, end>> of a task whose two dates parse.
DatesOf(task) ==
    <<parseUTCDateString(task.startDate)[1], parseUTCDateString(task.endDate)[1]>>

WindowStart == parseUTCDateString(projectStart)[1]

WindowEnd == parseUTCDateString(projectEnd)[1]

\* A step that is one pointer-move of a move/resize session.
DragMoveStep ==
    /\ dragAction # Null
    /\ dragAction' # Null
    /\ lastDayOffset' # Null
    /\ pointers' = pointers

\* The dates the pointer-move of a DragMoveStep leaves in the dragged task.
WrittenDates == DatesOf(TaskById(tasks', dragAction.taskId))

\* The working days between the session's anchors, 0 counted as 1.
AnchoredDuration ==
    LET counted == calculateWorkingDays(dragAction.initialStartDate,
                                        dragAction.initialEndDate, holidays)
    IN  IF counted = 0 THEN 1 ELSE counted

AnchorsInsideWindow ==
    /\ WindowStart <= dragAction.initialStartDate
    /\ dragAction.initialEndDate <= WindowEnd

\* The dates written hold the anchored working days, or span the window when
\* the window holds fewer.
MoveKept(written, anchored) ==
    IF calculateWorkingDays(WindowStart, WindowEnd, holidays) >= anchored
    THEN calculateWorkingDays(written[1], written[2], holidays) = anchored
    ELSE written = <<WindowStart, WindowEnd>>

\* C1: every pointer-move of a move session writes dates that hold exactly the
\* anchored number of working days when the project window holds at least that
\* many, and writes the window's start and end otherwise.
C1_MoveKeepsWorkingDays ==
    [][(DragMoveStep /\ dragAction.type = "move")
          => MoveKept(WrittenDates, AnchoredDuration)]_vars

\* C2: in every reachable state, every task whose two dates parse has its
\* start date on or before its end date.
C2_StartNotAfterEnd ==
    \A i \in DOMAIN tasks :
        (parseUTCDateString(tasks[i].startDate) # Null
            /\ parseUTCDateString(tasks[i].endDate) # Null)
        => DatesOf(tasks[i])[1] <= DatesOf(tasks[i])[2]

InsideWindow(written) == WindowStart <= written[1] /\ written[2] <= WindowEnd

\* C3: every pointer-move of a resize session on a task that lay inside the
\* project window when the drag began writes both dates inside the window.
C3_ResizeStaysInWindow ==
    [][(DragMoveStep /\ dragAction.type \in {"resize-start", "resize-end"}
           /\ AnchorsInsideWindow)
          => InsideWindow(WrittenDates)]_vars

\* In the session's task as it stands in ts, the endpoint the gesture moves
\* lies beyond the endpoint it keeps fixed.
MovingEndpointCrossed(ts) ==
    LET Beyond(dates) ==
            \/ dragAction.type = "resize-end" /\ dates[1] < dragAction.initialStartDate
            \/ dragAction.type = "resize-start" /\ dates[2] > dragAction.initialEndDate
    IN  Beyond(DatesOf(TaskById(ts, dragAction.taskId)))

\* C4: a pointer-move of a resize session that carries the moving endpoint
\* across the fixed one turns a resize-start session into a resize-end session
\* and a resize-end session into a resize-start session.
C4_CrossingReclassifies ==
    [][(DragMoveStep /\ dragAction.type \in {"resize-start", "resize-end"}
           /\ ~MovingEndpointCrossed(tasks) /\ MovingEndpointCrossed(tasks'))
          => dragAction'.type = (IF dragAction.type = "resize-start"
                                 THEN "resize-end" ELSE "resize-start")]_vars

\* The dates a resize-end with fixed endpoint s and moving endpoint at day
\* moved is to write.
ResizeEndResolved(written, s, moved) ==
    written = IF moved >= s THEN <<s, moved>> ELSE <<moved, s>>

\* Exactly one of the two dates lies one day to the left of where it was.
OneDayLeft(written, before) ==
    \/ written[1] = before[1] /\ written[2] = before[2] - 1
    \/ written[2] = before[2] /\ written[1] = before[1] - 1

\* C5: in a resize-end session on a task [s, e] inside the window, a pointer-move
\* at day offset off <= 0 writes [s, e+off] while e+off >= s and [e+off, s] once
\* e+off < s; and a pointer-move one day to the left of the previous one changes
\* exactly one of the two dates, by exactly one day.
C5_ResizeEndLeftwards ==
    [][(DragMoveStep /\ dragAction.type = "resize-end" /\ AnchorsInsideWindow
           /\ lastDayOffset'[1] <= 0)
          => /\ ResizeEndResolved(WrittenDates, dragAction.initialStartDate,
                                  dragAction.initialEndDate + lastDayOffset'[1])
             /\ (lastDayOffset # Null /\ lastDayOffset[1] <= 0
                    /\ lastDayOffset'[1] = lastDayOffset[1] - 1)
                => OneDayLeft(WrittenDates,
                              DatesOf(TaskById(tasks, dragAction.taskId)))]_vars

\* A resize-end session whose moving endpoint has been carried to the left of
\* the task's anchored start: the anchored start is now the task's end.
C5_CrossedLeftwards ==
    LET Crossed(dates) ==
            /\ dates[2] = dragAction.initialStartDate
            /\ dates[1] < dragAction.initialStartDate
    IN  /\ dragAction # Null
        /\ dragAction.type = "resize-end"
        /\ AnchorsInsideWindow
        /\ lastDayOffset # Null
        /\ lastDayOffset[1] < 0
        /\ dragAction.initialStartDate < dragAction.initialEndDate
        /\ Crossed(DatesOf(TaskById(tasks, dragAction.taskId)))

-----------------------------------------------------------------------------
(* Properties of the gesture sessions and of the create gesture.             *)

SessionCount ==
    (IF dragPreview # Null THEN 1 ELSE 0)
        + (IF dragAction # Null THEN 1 ELSE 0)
        + (IF reorderState # Null THEN 1 ELSE 0)

\* C6: in every reachable state at most one of dragPreview, dragAction and
\* reorderState is non-null.
C6_AtMostOneSession == SessionCount <= 1

\* A step that is one pointer-up.
PointerUpStep == pointers' = pointers - 1

\* A step that is one pointer-down.
PointerDownStep == pointers' = pointers + 1

\* C7: a pointer-up that arrives while a create, move/resize or reorder session
\* is active leaves no session: dragPreview, dragAction and reorderState are
\* all null afterwards.
C7_PointerUpEndsSession ==
    [][(PointerUpStep /\ SessionCount > 0)
          => (dragPreview' = Null /\ dragAction' = Null /\ reorderState' = Null)]_vars

\* No pointer is pressed and no session is active, after the release of a
\* create session has given the task its dates.
C7_IdleAfterRelease ==
    /\ pointers = 0
    /\ SessionCount = 0
    /\ \E i \in DOMAIN tasks : tasks[i].startDate # <<>>

\* C8: no pointer-down changes a task, and a pointer-down that enters a create
\* session does so for a task whose startDate and endDate are both empty, with
\* the preview anchored on a day of the day index that is not a non-working day.
C8_CreateEntry ==
    [][PointerDownStep
          => /\ tasks' = tasks
             /\ dragPreview' # dragPreview
                => /\ dragPreview' # Null
                   /\ \E i \in DOMAIN tasks :
                          /\ tasks[i].id = dragPreview'.taskId
                          /\ tasks[i].startDate = <<>>
                          /\ tasks[i].endDate = <<>>
                   /\ dragPreview'.end = dragPreview'.start
                   /\ \E k \in DOMAIN dateArray :
                          /\ dragPreview'.start = formatDateUTC(dateArray[k])
                          /\ getUTCDay(dateArray[k]) \notin holidays]_vars

\* A pointer-down has just entered a create session on a dateless task: the
\* preview sits on its anchor day, a working day of the day index.
C8_SessionEntered ==
    /\ dragPreview # Null
    /\ ~previewMoved
    /\ pointers = 1
    /\ dragPreview.end = dragPreview.start
    /\ TaskById(tasks, dragPreview.taskId).startDate = <<>>
    /\ TaskById(tasks, dragPreview.taskId).endDate = <<>>

\* A step that is one pointer-move of a create session.
CreateMoveStep ==
    /\ dragPreview # Null
    /\ dragPreview' # Null
    /\ pointers' = pointers

\* The step leaves min(a, b) and max(a, b) as the dates of the preview's task
\* and every other task as it was.
CreateCommitted(a, b) ==
    \A i \in DOMAIN tasks :
        IF tasks[i].id = dragPreview.taskId
        THEN /\ tasks'[i].startDate = formatDateUTC(IF a < b THEN a ELSE b)
             /\ tasks'[i].endDate = formatDateUTC(IF a < b THEN b ELSE a)
        ELSE tasks'[i] = tasks[i]

\* C9: the pointer-up of a create session with anchor a and last date b writes
\* startDate = min(a, b) and endDate = max(a, b) to the session's task and
\* leaves every other task alone; a pointer-move of the session changes no task
\* and keeps the anchor and the task of the preview.
C9_CreateCommit ==
    [][/\ (PointerUpStep /\ dragPreview # Null)
          => CreateCommitted(parseUTCDateString(dragPreview.start)[1],
                             parseUTCDateString(dragPreview.end)[1])
       /\ CreateMoveStep
          => /\ tasks' = tasks
             /\ dragPreview'.taskId = dragPreview.taskId
             /\ dragPreview'.start = dragPreview.start]_vars

\* A create session whose candidate pair is out of order (a pointer-move has
\* put the pointer on a day before the anchor), its task still without dates.
C9_UnorderedCandidate ==
    /\ dragPreview # Null
    /\ previewMoved
    /\ parseUTCDateString(dragPreview.end)[1]
           < parseUTCDateString(dragPreview.start)[1]
    /\ TaskById(tasks, dragPreview.taskId).startDate = <<>>
    /\ TaskById(tasks, dragPreview.taskId).endDate = <<>>

\* C10: the pointer-up of a create session whose preview no pointer-move has
\* updated leaves the startDate and the endDate of the session's task empty.
C10_ReleaseWithoutMoveCommitsNothing ==
    [][(PointerUpStep /\ dragPreview # Null /\ ~previewMoved)
          => /\ TaskById(tasks', dragPreview.taskId).startDate = <<>>
             /\ TaskById(tasks', dragPreview.taskId).endDate = <<>>]_vars

\* C10, as the code has it: the pointer-up of a create session whose preview
\* no pointer-move has updated commits the anchor day as both dates of the
\* session's task.
C10_ReleaseWithoutMoveCommitsAnchor ==
    [][(PointerUpStep /\ dragPreview # Null /\ ~previewMoved)
          => /\ TaskById(tasks', dragPreview.taskId).startDate = dragPreview.start
             /\ TaskById(tasks', dragPreview.taskId).endDate = dragPreview.start
             /\ parseUTCDateString(dragPreview.start) # Null]_vars

\* The only create session so far was released before any pointer-move
\* updated its preview, and its task holds one day as both dates.
C10_ReleasedWithoutMove ==
    /\ pointers = 0
    /\ dragPreview = Null
    /\ ~previewMoved
    /\ Cardinality({i \in DOMAIN tasks : tasks[i].startDate # <<>>}) = 1
    /\ \A i \in DOMAIN tasks :
           tasks[i].startDate # <<>> => tasks[i].endDate = tasks[i].startDate

-----------------------------------------------------------------------------
(* The reorder of the task list, applied directly.                           *)

\* Tasks in the list that is reordered.
MaxTasks == 5

\* handleAddTask: a task without dates is appended under a fresh id (the code
\* takes the id from the clock; the model numbers the tasks).
handleAddTask(ts) ==
    Append(ts, [id |-> ToString(Len(ts) + 1), name |-> "Task", assignee |-> "",
                startDate |-> <<>>, endDate |-> <<>>, progress |-> 0,
                manHours |-> 0])

RECURSIVE TasksAdded(_, _)
TasksAdded(ts, n) == IF Len(ts) >= n THEN ts ELSE TasksAdded(handleAddTask(ts), n)

\* The initial task list of App after the add button has brought it to
\* MaxTasks tasks.
InitReorder ==
    /\ tasks = TasksAdded(InitialTasks, MaxTasks)
    /\ projectStart = formatDateUTC(BaseDay)
    /\ projectEnd = formatDateUTC(BaseDay + WindowLen - 1)
    /\ holidays = {0, 6}
    /\ columnVisibility = [assignee |-> TRUE, startDate |-> TRUE, endDate |-> TRUE,
                           duration |-> TRUE, progress |-> TRUE, manHours |-> FALSE]
    /\ zoomIndex = 3
    /\ dragPreview = Null
    /\ dragAction = Null
    /\ reorderState = Null
    /\ pointers = 0
    /\ previewMoved = FALSE
    /\ lastDayOffset = Null
    /\ call = Null

\* onTaskReorder(draggedTaskId, dropIndex).
TaskReorder(draggedTaskId, dropIndex) ==
    /\ tasks' = handleTaskReorder(tasks, draggedTaskId, dropIndex)
    /\ call' = [op |-> "handleTaskReorder", before |-> tasks,
                draggedTaskId |-> draggedTaskId, dropIndex |-> dropIndex]
    /\ UNCHANGED <<projectStart, projectEnd, holidays, columnVisibility, zoomIndex,
                   dragPreview, dragAction, reorderState, pointers, previewMoved,
                   lastDayOffset>>

\* The id of every task of the list, and one id that no task has.
ReorderIds == {tasks[i].id : i \in DOMAIN tasks} \cup {"0"}

NextReorder ==
    \E draggedTaskId \in ReorderIds, dropIndex \in 0..Len(tasks) :
        TaskReorder(draggedTaskId, dropIndex)

SpecReorder == InitReorder /\ [][NextReorder]_vars

\* The sequence s without its k-th element.
Without(s, k) == [i \in 1..(Len(s) - 1) |-> IF i < k THEN s[i] ELSE s[i + 1]]

\* Position (from 0) of the first task of ts with this id.
IndexOfId(ts, id) ==
    (CHOOSE i \in DOMAIN ts : ts[i].id = id /\ \A j \in 1..(i - 1) : ts[j].id # id) - 1

\* after is before with the task at index from (from 0) taken out and put
\* back at index to: the same tasks, the others in their order.
MovedTo(before, after, from, to) ==
    /\ Len(after) = Len(before)
    /\ to >= 0
    /\ to < Len(after)
    /\ after[to + 1] = before[from + 1]
    /\ Without(after, to + 1) = Without(before, from + 1)

Reordered(before, after, id, dropIndex) ==
    LET From(draggedIndex) ==
            MovedTo(before, after, draggedIndex,
                    IF dropIndex > draggedIndex THEN dropIndex - 1 ELSE dropIndex)
    IN  IF \A i \in DOMAIN before : before[i].id # id THEN after = before
        ELSE From(IndexOfId(before, id))

\* C11: handleTaskReorder(id, dropIndex) with dropIndex in 0..n leaves the same
\* tasks with the others in their relative order and the dragged task at index
\* dropIndex - 1 when dropIndex is greater than its original index and at
\* dropIndex otherwise; an id that no task has leaves the list as it was.
C11_ReorderIsStableMove ==
    (call # Null /\ call.op = "handleTaskReorder")
        => Reordered(call.before, tasks, call.draggedTaskId, call.dropIndex)

\* The first task of a list of at least five has been dropped at drop index 3
\* and is now the third task.
C11_FirstDroppedAtThree ==
    /\ call # Null
    /\ call.op = "handleTaskReorder"
    /\ Len(call.before) >= 5
    /\ call.before[1].id = call.draggedTaskId
    /\ call.dropIndex = 3
    /\ tasks[3].id = call.draggedTaskId
    /\ tasks[1] = call.before[2]

-----------------------------------------------------------------------------
(* The working-day helpers and the segments of a bar, applied directly under *)
(* every set of non-working weekdays the settings dialog can produce.        *)

\* Days of the calendar the helpers are applied to, from Monday 2024/01/01.
CalendarLen == 10

\* Largest number of working days asked of addWorkingDays (and, negated, the
\* smallest).
MaxDays == 4

FirstCalendarDay == DaysFromCivil(2024, 1, 1)

CalendarDays == FirstCalendarDay..(FirstCalendarDay + CalendarLen - 1)

\* Texts of a task's date fields: every day of the calendar, nothing, a
\* half-typed date, a day that does not exist.
CalendarTexts ==
    {formatDateUTC(d) : d \in CalendarDays} \cup {<<>>, <<0>>, <<4, 2023, 2, 30>>}

\* handleHolidayChange of the settings dialog: the weekday is toggled.
handleHolidayChange(dayIndex) ==
    /\ holidays' = IF dayIndex \in holidays THEN holidays \ {dayIndex}
                   ELSE holidays \cup {dayIndex}
    /\ call' = Null
    /\ UNCHANGED <<tasks, projectStart, projectEnd, columnVisibility, zoomIndex,
                   dragPreview, dragAction, reorderState, pointers, previewMoved,
                   lastDayOffset>>

\* The render of the bar of a task with these dates: its duration and its
\* segments under the current non-working weekdays.
SegmentsCall(startDateStr, endDateStr) ==
    /\ call = Null
    /\ call' = [op |-> "getTaskSegments",
                startDate |-> startDateStr, endDate |-> endDateStr,
                totalWorkingDays |-> getTaskDuration(startDateStr, endDateStr),
                segments |-> getTaskSegments([startDate |-> startDateStr,
                                              endDate |-> endDateStr])]
    /\ UNCHANGED <<tasks, projectStart, projectEnd, holidays, columnVisibility,
                   zoomIndex, dragPreview, dragAction, reorderState, pointers,
                   previewMoved, lastDayOffset>>

\* addWorkingDays(startDate, days, holidays).  With every weekday non-working
\* the loops for days >= 0 do not end: no result is recorded.
AddWorkingDaysCall(startDate, days) ==
    /\ call = Null
    /\ days < 0 \/ holidays # 0..6
    /\ call' = [op |-> "addWorkingDays", startDate |-> startDate, days |-> days,
                result |-> addWorkingDays(startDate, days, holidays)]
    /\ UNCHANGED <<tasks, projectStart, projectEnd, holidays, columnVisibility,
                   zoomIndex, dragPreview, dragAction, reorderState, pointers,
                   previewMoved, lastDayOffset>>

NextWorkingDays ==
    \/ \E dayIndex \in 0..6 : handleHolidayChange(dayIndex)
    \/ \E startDateStr \in CalendarTexts, endDateStr \in CalendarTexts :
           SegmentsCall(startDateStr, endDateStr)
    \/ \E startDate \in CalendarDays, days \in (-MaxDays)..MaxDays :
           AddWorkingDaysCall(startDate, days)

SpecWorkingDays == InitOne /\ [][NextWorkingDays]_vars

\* The last application was getTaskSegments on a range start <= end.
SegmentsOfRange ==
    /\ call # Null
    /\ call.op = "getTaskSegments"
    /\ parseUTCDateString(call.startDate) # Null
    /\ parseUTCDateString(call.endDate) # Null
    /\ parseUTCDateString(call.startDate)[1] <= parseUTCDateString(call.endDate)[1]

\* The working days of the first k segments, each counted as the bar's render
\* counts it (segmentWorkingDays).
RECURSIVE SegmentWorkingDays(_, _)
SegmentWorkingDays(segments, k) ==
    IF k = 0 THEN 0
    ELSE SegmentWorkingDays(segments, k - 1)
             + calculateWorkingDays(segments[k].startDate, segments[k].endDate,
                                    holidays)

Day(y, m, d) == DaysFromCivil(y, m, d)

\* C12: for every range start <= end and every set of non-working weekdays,
\* the working days of the range equal the sum of the working days of its
\* segments; with Saturday and Sunday non-working, 2024/01/01..2024/01/05 has
\* 5 working days and the one segment [01/01, 01/05].
C12_WorkingDaysAreSegmentDays ==
    SegmentsOfRange
        => /\ call.totalWorkingDays
                  = SegmentWorkingDays(call.segments, Len(call.segments))
           /\ (holidays = {0, 6}
                 /\ call.startDate = formatDateUTC(Day(2024, 1, 1))
                 /\ call.endDate = formatDateUTC(Day(2024, 1, 5)))
              => /\ call.totalWorkingDays = 5
                 /\ call.segments = <<[startDate |-> Day(2024, 1, 1),
                                       endDate |-> Day(2024, 1, 5)]>>

\* A range that holds a non-working day between working days has been split
\* into more than one segment.
C12_RangeWithGap ==
    /\ SegmentsOfRange
    /\ Len(call.segments) >= 2
    /\ call.totalWorkingDays >= 3
    /\ call.totalWorkingDays
         < parseUTCDateString(call.endDate)[1]
             - parseUTCDateString(call.startDate)[1] + 1

\* The last application was addWorkingDays.
AddWorkingDaysApplied == call # Null /\ call.op = "addWorkingDays"

Working(date) == getUTCDay(date) \notin holidays

\* C13: addWorkingDays of Friday 2024/01/05 and 3 working days, Saturday and
\* Sunday non-working, is 2024/01/10.
C13_FridayPlusThreeIsWednesday ==
    (AddWorkingDaysApplied /\ holidays = {0, 6}
        /\ call.startDate = Day(2024, 1, 5) /\ call.days = 3)
        => call.result = Day(2024, 1, 10)

\* C13, as the code has it: addWorkingDays of Friday 2024/01/05 and 3 working
\* days, Saturday and Sunday non-working, is Tuesday 2024/01/09 (Friday is
\* working day 1, Monday 2, Tuesday 3).
C13_FridayPlusThreeIsTuesday ==
    (AddWorkingDaysApplied /\ holidays = {0, 6}
        /\ call.startDate = Day(2024, 1, 5) /\ call.days = 3)
        => call.result = Day(2024, 1, 9)

\* addWorkingDays has been applied to a Friday and 3 days over a weekend, and
\* the range from the Friday to the result holds 3 working days.
C13_ThreeDaysOverWeekend ==
    /\ AddWorkingDaysApplied
    /\ holidays = {0, 6}
    /\ getUTCDay(call.startDate) = 5
    /\ call.days = 3
    /\ calculateWorkingDays(call.startDate, call.result, holidays) = 3

\* C14: for every start date and every set of non-working weekdays that leaves
\* a working weekday, addWorkingDays(start, 1) is the first working day at or
\* after start.
C14_OneDayIsNextWorkingDay ==
    (AddWorkingDaysApplied /\ call.days = 1)
        => /\ call.result >= call.startDate
           /\ Working(call.result)
           /\ \A d \in call.startDate..(call.result - 1) : ~Working(d)

\* addWorkingDays(start, 1) has been applied to a non-working start day and
\* has moved past it.
C14_SnappedForward ==
    /\ AddWorkingDaysApplied
    /\ call.days = 1
    /\ ~Working(call.startDate)
    /\ call.result > call.startDate + 1

\* C15: addWorkingDays(start, 0) is the last working day at or before start,
\* and addWorkingDays(start, n) for n < 0 is start, working day or not.
C15_ZeroSnapsBackNegativeKeeps ==
    /\ (AddWorkingDaysApplied /\ call.days = 0)
          => /\ call.result <= call.startDate
             /\ Working(call.result)
             /\ \A d \in (call.result + 1)..call.startDate : ~Working(d)
    /\ (AddWorkingDaysApplied /\ call.days < 0)
          => call.result = call.startDate

\* addWorkingDays(start, 0) has been applied to a non-working start day and
\* has moved back from it.
C15_SnappedBack ==
    /\ AddWorkingDaysApplied
    /\ call.days = 0
    /\ ~Working(call.startDate)
    /\ call.result < call.startDate

\* The days start..end of a segment.
SegmentDaySet(segment) == segment.startDate..segment.endDate

\* The segments are ascending and pairwise disjoint, hold no non-working day,
\* cover the working days of start..end and nothing else, and are maximal.
SegmentsPartition(segments, start, end) ==
    /\ \A k \in DOMAIN segments : segments[k].startDate <= segments[k].endDate
    /\ \A k \in 1..(Len(segments) - 1) :
           segments[k].endDate < segments[k + 1].startDate
    /\ \A k \in DOMAIN segments : \A d \in SegmentDaySet(segments[k]) : Working(d)
    /\ UNION {SegmentDaySet(segments[k]) : k \in DOMAIN segments}
           = {d \in start..end : Working(d)}
    /\ \A k \in DOMAIN segments :
           /\ segments[k].startDate - 1 < start
                 \/ ~Working(segments[k].startDate - 1)
           /\ segments[k].endDate + 1 > end
                 \/ ~Working(segments[k].endDate + 1)

\* C19: for every range start <= end and every set of non-working weekdays the
\* segments of getTaskSegments are ascending, pairwise disjoint, free of
\* non-working days, cover exactly the working days of the range and are
\* maximal; dates that do not parse or are inverted give no segment; with
\* Saturday and Sunday non-working, Friday 2024/01/05 .. Monday 2024/01/08
\* gives [01/05, 01/05] and [01/08, 01/08].
C19_SegmentsAreMaximalRuns ==
    (call # Null /\ call.op = "getTaskSegments")
        => /\ SegmentsOfRange
                 => SegmentsPartition(call.segments,
                                      parseUTCDateString(call.startDate)[1],
                                      parseUTCDateString(call.endDate)[1])
           /\ ~SegmentsOfRange => call.segments = <<>>
           /\ (holidays = {0, 6}
                 /\ call.startDate = formatDateUTC(Day(2024, 1, 5))
                 /\ call.endDate = formatDateUTC(Day(2024, 1, 8)))
              => call.segments = <<[startDate |-> Day(2024, 1, 5),
                                    endDate |-> Day(2024, 1, 5)],
                                   [startDate |-> Day(2024, 1, 8),
                                    endDate |-> Day(2024, 1, 8)]>>

\* getTaskSegments has been applied to a range that begins and ends on a
\* non-working day and holds two runs of working days.
C19_GapsAtBothEnds ==
    /\ SegmentsOfRange
    /\ Len(call.segments) = 2
    /\ ~Working(parseUTCDateString(call.startDate)[1])
    /\ ~Working(parseUTCDateString(call.endDate)[1])

-----------------------------------------------------------------------------
(* The date texts: parseUTCDateString and formatDateUTC, applied directly.   *)

\* Largest month number and largest day number written in a date text.
MaxMonthNumber == 13

MaxDayNumber == 32

\* Years written in a date text: the first and the last four-digit year, the
\* years around the changes in the number of digits, a century year that is
\* not a leap year, a leap year and a common year.
TextYears == {0, 50, 99, 100, 999, 1000, 1900, 2023, 2024, 9999}

\* Texts given to parseUTCDateString: YYYY/MM/DD with every year, month and day
\* number above, the same with a year of three or of five digits, nothing, and
\* a half-typed date.
DateTexts ==
    {<<4, y, m, d>> : y \in TextYears, m \in 0..MaxMonthNumber, d \in 0..MaxDayNumber}
        \cup {<<3, 999, m, 1>> : m \in 0..MaxMonthNumber}
        \cup {<<5, 10000, m, 1>> : m \in 0..MaxMonthNumber}
        \cup {<<>>, <<0>>}

\* parseUTCDateString(dateStr), and formatDateUTC of its result when it is a Date.
ParseCall(dateStr) ==
    /\ call = Null
    /\ call' = [op |-> "parseUTCDateString", dateStr |-> dateStr,
                parsed |-> parseUTCDateString(dateStr),
                formatted |-> IF parseUTCDateString(dateStr) # Null
                              THEN <<formatDateUTC(parseUTCDateString(dateStr)[1])>>
                              ELSE Null]
    /\ UNCHANGED <<tasks, projectStart, projectEnd, holidays, columnVisibility,
                   zoomIndex, dragPreview, dragAction, reorderState, pointers,
                   previewMoved, lastDayOffset>>

NextDates == \E dateStr \in DateTexts : ParseCall(dateStr)

SpecDates == InitOne /\ [][NextDates]_vars

\* The Gregorian calendar: the days of month m of year y.
LeapYear(y) == y % 4 = 0 /\ (y % 100 # 0 \/ y % 400 = 0)

DaysInMonth(y, m) ==
    IF m = 2 THEN (IF LeapYear(y) THEN 29 ELSE 28)
    ELSE IF m \in {4, 6, 9, 11} THEN 30 ELSE 31

\* The text has the shape YYYY/MM/DD and names a day that exists.
DenotesExistingDay(s) ==
    /\ Len(s) = 4
    /\ s[1] = 4
    /\ s[2] \in 0..9999
    /\ s[3] \in 1..12
    /\ s[4] \in 1..DaysInMonth(s[2], s[3])

\* C16: parseUTCDateString of a text of the shape YYYY/MM/DD that names an
\* existing day (any year 0000..9999) is a Date, and formatDateUTC of that Date
\* is the text; parseUTCDateString of every other text is null.
C16_ParseFormatRoundTrip ==
    (call # Null /\ call.op = "parseUTCDateString")
        => IF DenotesExistingDay(call.dateStr)
           THEN call.parsed # Null /\ call.formatted = <<call.dateStr>>
           ELSE call.parsed = Null

-----------------------------------------------------------------------------
(* The timeline: the day index, the pointer's date and the grid span of a    *)
(* bar, under every project window and every zoom level.                     *)

\* Dates typed into the project start and project end fields: every day of
\* the initial window.
WindowDayTexts == {formatDateUTC(d) : d \in BaseDay..(BaseDay + WindowLen - 1)}

\* Texts typed into the same fields: those dates, nothing, a half-typed date.
WindowTexts == WindowDayTexts \cup {<<>>, <<0>>}

\* Days a bar may start or end on: the initial window and DateMargin + 1 days
\* on either side of it.
BarDays == (BaseDay - DateMargin - 1)..(BaseDay + WindowLen + DateMargin)

\* Pointer positions given to getDateFromX: every pixel of the timeline at
\* its widest, and one day width on either side of it.
TimelineXs == (-dayWidth)..((WindowLen + 1) * dayWidth)

\* onChange of the project start field: setProjectStart(e.target.value).
ProjectStartChange(value) ==
    /\ projectStart' = value
    /\ call' = Null
    /\ UNCHANGED <<tasks, projectEnd, holidays, columnVisibility, zoomIndex,
                   dragPreview, dragAction, reorderState, pointers, previewMoved,
                   lastDayOffset>>

\* onChange of the project end field: setProjectEnd(e.target.value).
ProjectEndChange(value) ==
    /\ projectEnd' = value
    /\ call' = Null
    /\ UNCHANGED <<tasks, projectStart, holidays, columnVisibility, zoomIndex,
                   dragPreview, dragAction, reorderState, pointers, previewMoved,
                   lastDayOffset>>

handleZoomIn ==
    /\ zoomIndex' = IF zoomIndex + 1 < Len(ZOOM_LEVELS) - 1 THEN zoomIndex + 1
                    ELSE Len(ZOOM_LEVELS) - 1
    /\ call' = Null
    /\ UNCHANGED <<tasks, projectStart, projectEnd, holidays, columnVisibility,
                   dragPreview, dragAction, reorderState, pointers, previewMoved,
                   lastDayOffset>>

handleZoomOut ==
    /\ zoomIndex' = IF zoomIndex - 1 > 0 THEN zoomIndex - 1 ELSE 0
    /\ call' = Null
    /\ UNCHANGED <<tasks, projectStart, projectEnd, holidays, columnVisibility,
                   dragPreview, dragAction, reorderState, pointers, previewMoved,
                   lastDayOffset>>

\* getDateFromX for a pointer x pixels to the right of the timeline's left edge.
DateFromXCall(x) ==
    /\ call = Null
    /\ call' = [op |-> "getDateFromX", x |-> x, result |-> getDateFromX(x)]
    /\ UNCHANGED <<tasks, projectStart, projectEnd, holidays, columnVisibility,
                   zoomIndex, dragPreview, dragAction, reorderState, pointers,
                   previewMoved, lastDayOffset>>

\* getGridPosition(start, end) of the render of a bar.
GridPositionCall(start, end) ==
    /\ call = Null
    /\ call' = [op |-> "getGridPosition", start |-> start, end |-> end,
                result |-> getGridPosition(start, end)]
    /\ UNCHANGED <<tasks, projectStart, projectEnd, holidays, columnVisibility,
                   zoomIndex, dragPreview, dragAction, reorderState, pointers,
                   previewMoved, lastDayOffset>>

NextTimeline ==
    \/ \E value \in WindowTexts : ProjectStartChange(value)
    \/ \E value \in WindowTexts : ProjectEndChange(value)
    \/ handleZoomIn
    \/ handleZoomOut
    \/ \E x \in TimelineXs : DateFromXCall(x)
    \/ \E start \in BarDays, end \in BarDays : GridPositionCall(start, end)

SpecTimeline == InitOne /\ [][NextTimeline]_vars

\* Both project dates parse and the start is not after the end.
WindowValid ==
    /\ parseUTCDateString(projectStart) # Null
    /\ parseUTCDateString(projectEnd) # Null
    /\ parseUTCDateString(projectStart)[1] <= parseUTCDateString(projectEnd)[1]

\* Every x of the cell of d, day number p of the window, is mapped to d.
CellMapsToDay(x, result, d, p) ==
    (p * dayWidth <= x /\ x < (p + 1) * dayWidth) => result = <<d>>

\* C17: for every window with start <= end, every day d of the window at
\* position p of the day index and every day width of the zoom levels,
\* getDateFromX maps every x with p*dayWidth <= x < (p+1)*dayWidth to d; for
\* x < 0 and for floor(x/dayWidth) at or past the length of the day index it
\* returns null.
C17_PointerCellRoundTrip ==
    (call # Null /\ call.op = "getDateFromX")
        => /\ WindowValid
                 => \A d \in WindowStart..WindowEnd :
                        /\ dateArray[d - WindowStart + 1] = d
                        /\ CellMapsToDay(call.x, call.result, d, d - WindowStart)
           /\ (call.x < 0 \/ call.x \div dayWidth >= Len(dateArray))
                 => call.result = Null

\* getDateFromX has mapped a pixel inside the last cell of a window of several
\* days to the window's last day, at a zoom level other than the initial one.
C17_LastCellFound ==
    /\ call # Null
    /\ call.op = "getDateFromX"
    /\ WindowValid
    /\ WindowStart < WindowEnd
    /\ zoomIndex # 3
    /\ call.x % dayWidth # 0
    /\ call.result = <<WindowEnd>>

Max(a, b) == IF a > b THEN a ELSE b

Min(a, b) == IF a < b THEN a ELSE b

\* The bar start..end has no day in the day index.
NotVisible(dates, start, end) ==
    \/ Len(dates) = 0
    \/ end < start
    \/ end < dates[1]
    \/ start > dates[Len(dates)]

\* span holds the positions (from 0) of the clamped start and end.
SpanOfIntersection(dates, start, end, span) ==
    /\ span # Null
    /\ 0 <= span[1]
    /\ span[1] <= span[2]
    /\ span[2] < Len(dates)
    /\ dates[span[1] + 1] = Max(start, dates[1])
    /\ dates[span[2] + 1] = Min(end, dates[Len(dates)])

\* C20: getGridPosition(start, end) gives the positions in the day index of
\* max(start, windowStart) and min(end, windowEnd), with
\* 0 <= startIndex <= endIndex < length, whenever start..end meets the window;
\* it gives the invisible style exactly when the day index is empty, end is
\* before start, or the bar lies wholly before or wholly after the window.
C20_GridSpanIsIntersection ==
    (call # Null /\ call.op = "getGridPosition")
        => IF NotVisible(dateArray, call.start, call.end)
           THEN call.result = Null
           ELSE SpanOfIntersection(dateArray, call.start, call.end, call.result)

\* getGridPosition has clamped a bar that begins before the window and ends
\* after it to the whole day index.
C20_ClampedOnBothSides ==
    /\ call # Null
    /\ call.op = "getGridPosition"
    /\ WindowValid
    /\ WindowStart < WindowEnd
    /\ call.start < WindowStart
    /\ call.end > WindowEnd
    /\ call.result = <<0, Len(dateArray) - 1>>

-----------------------------------------------------------------------------
(* The gestures on one task while the project window is edited.              *)

\* One pointer that creates and moves bars, and dates typed into the project
\* start and end fields.
NextWindow ==
    \/ \E i \in DOMAIN tasks, x \in RowDownXs : pointers < 1 /\ RowPointerDown(i, x)
    \/ \E i \in DOMAIN tasks, x \in BarDownXs :
           pointers < 1 /\ handleDragStart(i, "move", x)
    \/ Moves
    \/ PointerUp
    \/ \E value \in WindowDayTexts : ProjectStartChange(value)
    \/ \E value \in WindowDayTexts : ProjectEndChange(value)

SpecWindow == InitOne /\ [][NextWindow]_vars

\* The step is not an edit of the project window.
WindowKept == projectStart' = projectStart /\ projectEnd' = projectEnd

\* C18: every pointer-move of a move session, whatever its day offset and
\* wherever the anchored task lies, under every project window with
\* start <= end, writes dates with
\* windowStart <= startDate <= endDate <= windowEnd.
C18_MoveStaysInWindow ==
    [][(DragMoveStep /\ WindowKept /\ dragAction.type = "move" /\ WindowValid)
          => /\ InsideWindow(WrittenDates)
             /\ WrittenDates[1] <= WrittenDates[2]]_vars

\* A move session whose anchored task lay partly outside the project window
\* has written dates inside it.
C18_MovedBackInside ==
    /\ dragAction # Null
    /\ dragAction.type = "move"
    /\ lastDayOffset # Null
    /\ WindowValid
    /\ ~AnchorsInsideWindow
    /\ InsideWindow(DatesOf(TaskById(tasks, dragAction.taskId)))

-----------------------------------------------------------------------------
(* The progress line: the X of each task's progress point against the       *)
(* baseline of the progress line date.  X values are in hundredths of a      *)
(* pixel, so that the fraction progress / 100 of a day width is an integer.  *)

\* Days a task of the progress line may start or end on, from Friday
\* 2024/01/05.
ProgressLen == 5

ProgressDays == (FirstCalendarDay + 4)..(FirstCalendarDay + 4 + ProgressLen - 1)

\* Texts of the task's date fields: those days, a day before the window,
\* nothing.
ProgressTexts ==
    {formatDateUTC(d) : d \in ProgressDays \cup {FirstCalendarDay - 1}} \cup {<<>>}

\* Progress line dates: a day before the first task day, a day among them,
\* the last day of the window, a day after the window.
ProgressLineDates ==
    {formatDateUTC(FirstCalendarDay + 3), formatDateUTC(FirstCalendarDay + 6),
     formatDateUTC(FirstCalendarDay + CalendarLen - 1),
     formatDateUTC(FirstCalendarDay + CalendarLen)}

\* Values of task.progress: handleProgressChange keeps integers 0..100.
ProgressValues == {0, 40, 50, 100}

\* The project window is the calendar: both header fields have been edited.
InitProgress ==
    /\ tasks = <<InitialTasks[1]>>
    /\ projectStart = formatDateUTC(FirstCalendarDay)
    /\ projectEnd = formatDateUTC(FirstCalendarDay + CalendarLen - 1)
    /\ holidays = {0, 6}
    /\ columnVisibility = [assignee |-> TRUE, startDate |-> TRUE, endDate |-> TRUE,
                           duration |-> TRUE, progress |-> TRUE, manHours |-> FALSE]
    /\ zoomIndex = 3
    /\ dragPreview = Null
    /\ dragAction = Null
    /\ reorderState = Null
    /\ pointers = 0
    /\ previewMoved = FALSE
    /\ lastDayOffset = Null
    /\ call = Null

\* dateArray.findIndex(d => d.getTime() === date.getTime())
findIndex(dates, date) ==
    IF \E i \in DOMAIN dates : dates[i] = date
    THEN (CHOOSE i \in DOMAIN dates : dates[i] = date) - 1
    ELSE -1

\* A walk of the progress point that adds nothing for a non-working day.
RECURSIVE WalkProgressSkipsHolidays(_, _, _, _)
WalkProgressSkipsHolidays(currentPosDate, endDate, completedWorkDays, pixelOffset) ==
    IF completedWorkDays > 0 /\ currentPosDate <= endDate
    THEN LET Step(consumption) ==
                 WalkProgressSkipsHolidays(
                     IF completedWorkDays - consumption > 0
                     THEN currentPosDate + 1 ELSE currentPosDate,
                     endDate, completedWorkDays - consumption,
                     pixelOffset + consumption * dayWidth)
         IN  Step(IF getUTCDay(currentPosDate) \notin holidays
                  THEN Min(100, completedWorkDays) ELSE 0)
    ELSE pixelOffset

\* The while loop of progressLinePath; completedWorkDays is in hundredths of
\* a day, pixelOffset in hundredths of a pixel.
RECURSIVE WalkProgress(_, _, _, _)
WalkProgress(currentPosDate, endDate, completedWorkDays, pixelOffset) ==
    IF completedWorkDays > 0 /\ currentPosDate <= endDate
    THEN LET Step(consumption, gain) ==
                 WalkProgress(
                     IF completedWorkDays - consumption > 0
                     THEN currentPosDate + 1 ELSE currentPosDate,
                     endDate, completedWorkDays - consumption,
                     pixelOffset + gain)
         IN  IF getUTCDay(currentPosDate) \notin holidays
             THEN Step(Min(100, completedWorkDays),
                       Min(100, completedWorkDays) * dayWidth)
             ELSE Step(0, 100 * dayWidth)
    ELSE pixelOffset

\* currentTaskX of one task in progressLinePath (without taskDetailsWidth).
taskProgressX(task, baselineDate, baselineX) ==
    LET Walked(startDate, endDate, totalWorkDays) ==
            IF totalWorkDays > 0 /\ findIndex(dateArray, startDate) # -1
            THEN 100 * findIndex(dateArray, startDate) * dayWidth
                     + WalkProgress(startDate, endDate,
                                    totalWorkDays * task.progress, 0)
            ELSE baselineX
        Located(startDate, endDate) ==
            IF startDate = Null \/ endDate = Null THEN baselineX
            ELSE IF \/ endDate[1] < baselineDate /\ task.progress = 100
                    \/ startDate[1] > baselineDate /\ task.progress = 0
                 THEN baselineX
                 ELSE Walked(startDate[1], endDate[1],
                             calculateWorkingDays(startDate[1], endDate[1], holidays))
    IN  Located(parseUTCDateString(task.startDate), parseUTCDateString(task.endDate))

\* progressLinePath for one task: <<>> when no path is drawn, otherwise
\* <<baselineX, currentTaskX>>.
progressLinePath(progressLineDate, task) ==
    LET Path(baselineDateIndex) ==
            IF baselineDateIndex = -1 THEN Null
            ELSE <<100 * (baselineDateIndex + 1) * dayWidth,
                   taskProgressX(task, dateArray[baselineDateIndex + 1],
                                 100 * (baselineDateIndex + 1) * dayWidth)>>
        Baseline(baselineDate) ==
            IF baselineDate = Null THEN Null
            ELSE Path(findIndex(dateArray, baselineDate[1]))
    IN  IF progressLineDate = Null \/ Len(dateArray) = 0 THEN Null
        ELSE Baseline(parseUTCDateString(progressLineDate))

\* The render of the progress line for a task with these dates and progress.
ProgressLineCall(progressLineDate, startDateStr, endDateStr, progress) ==
    /\ call = Null
    /\ call' = [op |-> "progressLinePath", progressLineDate |-> progressLineDate,
                startDate |-> startDateStr, endDate |-> endDateStr,
                progress |-> progress,
                path |-> progressLinePath(progressLineDate,
                             [startDate |-> startDateStr, endDate |-> endDateStr,
                              progress |-> progress])]
    /\ UNCHANGED <<tasks, projectStart, projectEnd, holidays, columnVisibility,
                   zoomIndex, dragPreview, dragAction, reorderState, pointers,
                   previewMoved, lastDayOffset>>

\* A fill of the segments that never takes a segment's fill off the budget.
RECURSIVE FillSegmentsFromWholeBudget(_, _, _, _)
FillSegmentsFromWholeBudget(segments, segIndex, completedWorkingDays, fills) ==
    IF segIndex > Len(segments) THEN fills
    ELSE FillSegmentsFromWholeBudget(segments, segIndex + 1, completedWorkingDays,
             Append(fills,
                    <<Max(0, Min(100 * calculateWorkingDays(segments[segIndex].startDate,
                                           segments[segIndex].endDate, holidays),
                                 completedWorkingDays))>>))

\* segments.map of the bar's render: progressDaysInSegment of each segment in
\* order, each <<hundredths of a day>> (<<>> for a segment that renders
\* nothing).
RECURSIVE FillSegments(_, _, _, _)
FillSegments(segments, segIndex, completedWorkingDays, fills) ==
    IF segIndex > Len(segments) THEN fills
    ELSE LET Fill(segmentWorkingDays) ==
                 IF segmentWorkingDays = 0
                 THEN FillSegments(segments, segIndex + 1, completedWorkingDays,
                                   Append(fills, Null))
                 ELSE FillSegments(segments, segIndex + 1,
                          completedWorkingDays
                              - Max(0, Min(100 * segmentWorkingDays, completedWorkingDays)),
                          Append(fills,
                                 <<Max(0, Min(100 * segmentWorkingDays,
                                              completedWorkingDays))>>))
         IN  Fill(calculateWorkingDays(segments[segIndex].startDate,
                                       segments[segIndex].endDate, holidays))

\* The progress fill of the bar of a task: <<>> when no bar is rendered.
progressDaysInSegments(task) ==
    LET Bar(taskStart, taskEnd) ==
            IF taskStart = Null \/ taskEnd = Null THEN Null
            ELSE IF taskEnd[1] < taskStart[1] THEN Null
            ELSE IF getTaskDuration(task.startDate, task.endDate) = 0 THEN Null
            ELSE <<FillSegments(getTaskSegments(task), 1,
                                getTaskDuration(task.startDate, task.endDate)
                                    * task.progress, <<>>)>>
    IN  Bar(parseUTCDateString(task.startDate), parseUTCDateString(task.endDate))

\* The render of the bar of a task with these dates and progress.
ProgressFillCall(startDateStr, endDateStr, progress) ==
    /\ call = Null
    /\ call' = [op |-> "progressDaysInSegment",
                startDate |-> startDateStr, endDate |-> endDateStr,
                progress |-> progress,
                totalWorkingDays |-> getTaskDuration(startDateStr, endDateStr),
                segments |-> getTaskSegments([startDate |-> startDateStr,
                                              endDate |-> endDateStr]),
                fills |-> progressDaysInSegments(
                              [startDate |-> startDateStr, endDate |-> endDateStr,
                               progress |-> progress])]
    /\ UNCHANGED <<tasks, projectStart, projectEnd, holidays, columnVisibility,
                   zoomIndex, dragPreview, dragAction, reorderState, pointers,
                   previewMoved, lastDayOffset>>

NextProgress ==
    \/ \E dayIndex \in 0..6 : handleHolidayChange(dayIndex)
    \/ \E progressLineDate \in ProgressLineDates, startDateStr \in ProgressTexts,
          endDateStr \in ProgressTexts, progress \in ProgressValues :
           ProgressLineCall(progressLineDate, startDateStr, endDateStr, progress)
    \/ \E startDateStr \in ProgressTexts, endDateStr \in ProgressTexts,
          progress \in ProgressValues :
           ProgressFillCall(startDateStr, endDateStr, progress)

SpecProgress == InitProgress /\ [][NextProgress]_vars

\* The last render drew a progress line for a task whose dates both parse.
ProgressLineDrawn ==
    /\ call # Null
    /\ call.op = "progressLinePath"
    /\ call.path # Null
    /\ parseUTCDateString(call.startDate) # Null
    /\ parseUTCDateString(call.endDate) # Null

CallStart == parseUTCDateString(call.startDate)[1]

CallEnd == parseUTCDateString(call.endDate)[1]

CallCutoff == parseUTCDateString(call.progressLineDate)[1]

\* Position of a day in the day index (0 for the project start).
DayIndex(date) == date - WindowStart

\* The task is trivially ahead of or behind the progress line date.
OnBaseline ==
    \/ call.progress = 100 /\ CallEnd < CallCutoff
    \/ call.progress = 0 /\ CallStart > CallCutoff

\* No day of the task is a working day (a start after the end included).
NoWorkingDay == \A d \in CallStart..CallEnd : ~Working(d)

\* The budget left when the walk comes to a day, in hundredths of a day.
BudgetAt(date) ==
    Max(0, Cardinality({d \in CallStart..CallEnd : Working(d)}) * call.progress
               - 100 * Cardinality({d \in CallStart..(date - 1) : Working(d)}))

\* What the walk adds on one day, in hundredths of a pixel: nothing once the
\* budget is zero, a day width on a non-working day, the consumed part of a
\* day width on a working day.
DayGain(date) ==
    IF BudgetAt(date) = 0 THEN 0
    ELSE IF Working(date) THEN dayWidth * Min(100, BudgetAt(date))
    ELSE 100 * dayWidth

RECURSIVE WalkedGain(_)
WalkedGain(date) ==
    IF date < CallStart THEN 0 ELSE WalkedGain(date - 1) + DayGain(date)

\* X of the task start plus the walk over the days of the task.
WalkedX == 100 * DayIndex(CallStart) * dayWidth + WalkedGain(CallEnd)

\* The task start is a day of the window.
StartInWindow == WindowStart <= CallStart /\ CallStart <= WindowEnd

\* C21: the progress point is on the cutoff date's own X, its position in
\* the day index times dayWidth, when the task is complete and ends before
\* the cutoff or has progress 0 and starts after it; in every other case
\* with the task start inside the window it is the task start's X plus a day
\* width for each non-working day walked and dayWidth times the budget
\* consumed on each working day.
C21_ProgressXOnCutoffPosition ==
    ProgressLineDrawn
        => IF OnBaseline
           THEN call.path[2] = 100 * DayIndex(CallCutoff) * dayWidth
           ELSE StartInWindow => call.path[2] = WalkedX

\* C21 as amended: the X of a trivially ahead or behind task, and of a task
\* without a working day, is the baseline, the right edge of the cutoff day.
C21_ProgressXOnBaseline ==
    ProgressLineDrawn
        => /\ call.path[1] = 100 * (DayIndex(CallCutoff) + 1) * dayWidth
           /\ IF OnBaseline \/ NoWorkingDay
              THEN call.path[2] = call.path[1]
              ELSE StartInWindow => call.path[2] = WalkedX

\* A half-done task of three working days around a weekend has been walked
\* over Friday, the weekend and half of Monday.
C21_WalkedOverWeekend ==
    /\ ProgressLineDrawn
    /\ ~OnBaseline
    /\ StartInWindow
    /\ call.progress = 50
    /\ holidays = {0, 6}
    /\ CallStart = Day(2024, 1, 5)
    /\ CallEnd = Day(2024, 1, 9)
    /\ call.path[2] = 100 * 4 * dayWidth + 350 * dayWidth

-----------------------------------------------------------------------------
(* The progress fill of a bar, segment by segment, in hundredths of a day.  *)

\* The last render filled the bar of a task with at least one working day.
BarFilled ==
    /\ call # Null
    /\ call.op = "progressDaysInSegment"
    /\ call.fills # Null

Fills == call.fills[1]

\* Working days of the k-th segment of the bar, in hundredths of a day.
SegmentDays(k) ==
    100 * Cardinality({d \in call.segments[k].startDate..call.segments[k].endDate :
                           Working(d)})

RECURSIVE SumOfFills(_)
SumOfFills(k) == IF k = 0 THEN 0 ELSE SumOfFills(k - 1) + Fills[k][1]

\* C22: under every set of non-working weekdays, for a task with at least
\* one working day and integer progress 0..100, each segment's fill is the
\* smaller of the remaining budget and the segment's working days, the fills
\* sum to totalWorkingDays * progress / 100, every fill lies between 0 and
\* the segment's working days, and a segment is filled at all only if every
\* earlier segment is filled completely.
C22_FillIsGapless ==
    BarFilled
        => /\ Len(Fills) = Len(call.segments)
           /\ \A k \in DOMAIN Fills : Fills[k] # Null
           /\ \A k \in DOMAIN Fills :
                  /\ Fills[k][1] = Min(call.totalWorkingDays * call.progress
                                           - SumOfFills(k - 1), SegmentDays(k))
                  /\ 0 <= Fills[k][1]
                  /\ Fills[k][1] <= SegmentDays(k)
                  /\ Fills[k][1] > 0
                       => \A j \in 1..(k - 1) : Fills[j][1] = SegmentDays(j)
           /\ SumOfFills(Len(Fills)) = call.totalWorkingDays * call.progress

\* A bar of three one-day segments at 50%: the first is full, the second
\* half filled, the third empty.
C22_SecondSegmentHalfFilled ==
    /\ BarFilled
    /\ call.progress = 50
    /\ Len(Fills) = 3
    /\ Fills = <<<<100>>, <<50>>, <<0>>>>

-----------------------------------------------------------------------------
(* The loops of the working-day helpers, one iteration at a time: call holds *)
(* the helper's local variables and pc its place, "done" once it returned.   *)

\* Largest number of days asked of addWorkingDays and
\* addOrSubtractWorkingDays (and, negated, the smallest).
MaxSteps == 2

\* Days the ranges of calculateWorkingDays and getTaskSegments span at most.
MaxRange == 3

\* A walk is followed for this many days from its start date: further than
\* any walk goes while one weekday is a working day.
MaxWalk == 7 * (MaxSteps + 1)

\* Start dates of the walks: Monday 2024/01/01 and Thursday 2024/01/04.
WalkStarts == {FirstCalendarDay, FirstCalendarDay + 3}

WalkFrame ==
    UNCHANGED <<tasks, projectStart, projectEnd, holidays, columnVisibility,
                zoomIndex, dragPreview, dragAction, reorderState, pointers,
                previewMoved, lastDayOffset>>

\* The helper named op is at pc.
At(op, pc) == call # Null /\ call.op = op /\ call.pc = pc

\* The date is within MaxWalk days of the start date of the walk.
Followed(date) == call.startDate - MaxWalk <= date /\ date <= call.startDate + MaxWalk

\* calculateWorkingDays(startDate, endDate, holidays) up to its loop.
CalculateWorkingDaysEnter(startDate, endDate) ==
    /\ call = Null
    /\ call' = [op |-> "calculateWorkingDays",
                pc |-> IF endDate < startDate THEN "done" ELSE "while",
                startDate |-> startDate, endDate |-> endDate,
                current |-> startDate, count |-> 0]
    /\ WalkFrame

\* One test of while (current.getTime() <= endDate.getTime()) and its body.
CalculateWorkingDaysStep ==
    /\ At("calculateWorkingDays", "while")
    /\ call' = IF call.current <= call.endDate
               THEN [call EXCEPT !.count = IF getUTCDay(call.current) \notin holidays
                                           THEN @ + 1 ELSE @,
                                 !.current = @ + 1]
               ELSE [call EXCEPT !.pc = "done"]
    /\ WalkFrame

\* getTaskSegments of a task with these dates, up to its loop.
GetTaskSegmentsEnter(start, end) ==
    /\ call = Null
    /\ call' = [op |-> "getTaskSegments",
                pc |-> IF end < start THEN "done" ELSE "while",
                startDate |-> start, endDate |-> end, current |-> start,
                segmentStart |-> Null, segments |-> <<>>]
    /\ WalkFrame

\* One test of while (current.getTime() <= end.getTime()) and its body, or
\* the push after the loop.
GetTaskSegmentsStep ==
    /\ At("getTaskSegments", "while")
    /\ call' =
         IF call.current <= call.endDate
         THEN IF getUTCDay(call.current) \notin holidays /\ call.segmentStart = Null
              THEN [call EXCEPT !.segmentStart = <<call.current>>, !.current = @ + 1]
              ELSE IF getUTCDay(call.current) \in holidays /\ call.segmentStart # Null
              THEN [call EXCEPT !.segments =
                                    Append(@, [startDate |-> call.segmentStart[1],
                                               endDate |-> call.current - 1]),
                                !.segmentStart = Null, !.current = @ + 1]
              ELSE [call EXCEPT !.current = @ + 1]
         ELSE [call EXCEPT !.pc = "done",
                           !.segments =
                               IF call.segmentStart # Null
                               THEN Append(@, [startDate |-> call.segmentStart[1],
                                               endDate |-> call.endDate])
                               ELSE @]
    /\ WalkFrame

\* addWorkingDays(startDate, days, holidays) up to its first loop.
AddWorkingDaysEnter(startDate, days) ==
    /\ call = Null
    /\ call' = [op |-> "addWorkingDays",
                pc |-> IF days = 0 THEN "back" ELSE IF days < 1 THEN "done" ELSE "snap",
                startDate |-> startDate, days |-> days, result |-> startDate,
                added |-> 0]
    /\ WalkFrame

\* An iteration of addWorkingDays that counts the days it has added only on
\* Mondays.
AddWorkingDaysStepCountsMondays ==
    /\ call # Null /\ call.op = "addWorkingDays" /\ call.pc # "done"
    /\ Followed(call.result)
    /\ call' =
         IF call.pc = "back"
         THEN IF getUTCDay(call.result) \in holidays
              THEN [call EXCEPT !.result = @ - 1] ELSE [call EXCEPT !.pc = "done"]
         ELSE IF call.pc = "snap"
         THEN IF getUTCDay(call.result) \in holidays
              THEN [call EXCEPT !.result = @ + 1] ELSE [call EXCEPT !.pc = "add"]
         ELSE IF call.added < call.days - 1
         THEN [call EXCEPT !.result = @ + 1,
                           !.added = IF getUTCDay(call.result + 1) = 1
                                        /\ getUTCDay(call.result + 1) \notin holidays
                                     THEN @ + 1 ELSE @]
         ELSE [call EXCEPT !.pc = "done"]
    /\ WalkFrame

\* One test of the loop addWorkingDays is in, and its body: the walk back of
\* days === 0 ("back"), the walk to a working start day ("snap"), the count
\* of days - 1 further working days ("add").
AddWorkingDaysStep ==
    /\ call # Null /\ call.op = "addWorkingDays" /\ call.pc # "done"
    /\ Followed(call.result)
    /\ call' =
         IF call.pc = "back"
         THEN IF getUTCDay(call.result) \in holidays
              THEN [call EXCEPT !.result = @ - 1] ELSE [call EXCEPT !.pc = "done"]
         ELSE IF call.pc = "snap"
         THEN IF getUTCDay(call.result) \in holidays
              THEN [call EXCEPT !.result = @ + 1] ELSE [call EXCEPT !.pc = "add"]
         ELSE IF call.added < call.days - 1
         THEN [call EXCEPT !.result = @ + 1,
                           !.added = IF getUTCDay(call.result + 1) \notin holidays
                                     THEN @ + 1 ELSE @]
         ELSE [call EXCEPT !.pc = "done"]
    /\ WalkFrame

\* addOrSubtractWorkingDays(startDate, days, holidays) up to its loop.
AddOrSubtractWorkingDaysEnter(startDate, days) ==
    /\ call = Null
    /\ call' = [op |-> "addOrSubtractWorkingDays",
                pc |-> IF days = 0 THEN "done" ELSE "while",
                startDate |-> startDate, days |-> days, result |-> startDate,
                remaining |-> IF days < 0 THEN -days ELSE days,
                direction |-> IF days > 0 THEN 1 ELSE IF days < 0 THEN -1 ELSE 0]
    /\ WalkFrame

\* One test of while (remaining > 0) and its body.
AddOrSubtractWorkingDaysStep ==
    /\ At("addOrSubtractWorkingDays", "while")
    /\ Followed(call.result)
    /\ call' = IF call.remaining > 0
               THEN [call EXCEPT !.result = @ + call.direction,
                                 !.remaining =
                                     IF getUTCDay(call.result + call.direction)
                                            \notin holidays
                                     THEN @ - 1 ELSE @]
               ELSE [call EXCEPT !.pc = "done"]
    /\ WalkFrame

\* The next iteration of the helper that is running.
WalkStep ==
    \/ CalculateWorkingDaysStep
    \/ GetTaskSegmentsStep
    \/ AddWorkingDaysStep
    \/ AddOrSubtractWorkingDaysStep

\* No helper is running: none was applied or the last one has returned.
Idle == IF call = Null THEN TRUE ELSE call.pc = "done"

NextWalks ==
    \/ \E dayIndex \in 0..6 : Idle /\ handleHolidayChange(dayIndex)
    \/ \E startDate \in WalkStarts, length \in 0..MaxRange :
           \/ CalculateWorkingDaysEnter(startDate, startDate + length - 1)
           \/ GetTaskSegmentsEnter(startDate, startDate + length - 1)
    \/ \E startDate \in WalkStarts, days \in (-MaxSteps)..MaxSteps :
           \/ AddWorkingDaysEnter(startDate, days)
           \/ AddOrSubtractWorkingDaysEnter(startDate, days)
    \/ WalkStep

\* A helper that has been applied runs on: JavaScript runs a handler to its
\* end before anything else.
SpecWalks == InitOne /\ [][NextWalks]_vars /\ WF_vars(WalkStep)

\* A helper is in one of its loops.
Walking == call # Null /\ "pc" \in DOMAIN call /\ call.pc # "done"

\* The helper has returned.
Returned == call # Null /\ "pc" \in DOMAIN call /\ call.pc = "done"

\* The helper running is addWorkingDays with days >= 0 or
\* addOrSubtractWorkingDays with days # 0.
WalkToWorkingDay ==
    \/ call.op = "addWorkingDays" /\ call.days >= 0
    \/ call.op = "addOrSubtractWorkingDays" /\ call.days # 0

-----------------------------------------------------------------------------
(* Move and resize sessions on a list of two tasks while the project start  *)
(* and end fields are edited, also to texts that are not dates.              *)

\* The first task after a create gesture over the first two days of the
\* window.
FirstTaskDated ==
    [InitialTasks[1] EXCEPT !.startDate = formatDateUTC(BaseDay),
                            !.endDate = formatDateUTC(BaseDay + 1)]

\* The list of two tasks after that gesture, as it is and after the first
\* task has been dragged below the second.
InitFrame ==
    /\ tasks \in {<<FirstTaskDated, InitialTasks[2]>>,
                  <<InitialTasks[2], FirstTaskDated>>}
    /\ projectStart = formatDateUTC(BaseDay)
    /\ projectEnd = formatDateUTC(BaseDay + WindowLen - 1)
    /\ holidays = {0, 6}
    /\ columnVisibility = [assignee |-> TRUE, startDate |-> TRUE, endDate |-> TRUE,
                           duration |-> TRUE, progress |-> TRUE, manHours |-> FALSE]
    /\ zoomIndex = 3
    /\ dragPreview = Null
    /\ dragAction = Null
    /\ reorderState = Null
    /\ pointers = 0
    /\ previewMoved = FALSE
    /\ lastDayOffset = Null
    /\ call = Null

\* Create, move and resize gestures on the task "2" and edits of the project
\* end field.
NextFrame ==
    \/ \E i \in DOMAIN tasks, x \in RowDownXs :
           pointers < 1 /\ tasks[i].id = "2" /\ RowPointerDown(i, x)
    \/ \E i \in DOMAIN tasks, type \in DragTypes, x \in BarDownXs :
           pointers < 1 /\ tasks[i].id = "2" /\ handleDragStart(i, type, x)
    \/ Moves
    \/ PointerUp
    \/ \E value \in {formatDateUTC(BaseDay + WindowLen - 1), <<>>} :
           ProjectEndChange(value)

SpecFrame == InitFrame /\ [][NextFrame]_vars

\* The task is the same but for its start and end date.
SameButDates(before, after) ==
    [after EXCEPT !.startDate = before.startDate, !.endDate = before.endDate] = before

\* C24: a pointer-move of a move, resize-start or resize-end session changes
\* only the startDate and endDate of the task with the dragged id: the length
\* and order of the list, every other task and the dragged task's id, name,
\* assignee, progress and manHours stay; when the project start or end does
\* not parse, the pointer-move changes no task.
C24_DragMoveWritesDatesOnly ==
    [][(DragMoveStep /\ WindowKept)
         => /\ Len(tasks') = Len(tasks)
            /\ \A i \in DOMAIN tasks :
                   IF tasks[i].id = dragAction.taskId
                   THEN SameButDates(tasks[i], tasks'[i])
                   ELSE tasks'[i] = tasks[i]
            /\ (parseUTCDateString(projectStart) = Null
                  \/ parseUTCDateString(projectEnd) = Null) => tasks' = tasks
            /\ UNCHANGED <<holidays, columnVisibility, zoomIndex>>]_vars

\* The task "2", first in the list, has been dragged away from its anchors
\* while the other task has kept dates of its own.
C24_FirstInListDragged ==
    /\ dragAction # Null
    /\ lastDayOffset # Null
    /\ dragAction.taskId = "2"
    /\ tasks[1].id = "2"
    /\ tasks[2] = FirstTaskDated
    /\ tasks[1].startDate # tasks[2].startDate
    /\ parseUTCDateString(tasks[1].startDate) # <<dragAction.initialStartDate>>

-----------------------------------------------------------------------------
(* The dates of a session as a function of its anchors and the day offset.  *)

\* The task list with the dragged task back on the dates it had at
\* pointer-down.
TasksAtPointerDown ==
    [i \in DOMAIN tasks |->
        IF tasks[i].id = dragAction.taskId
        THEN [tasks[i] EXCEPT !.startDate = formatDateUTC(dragAction.initialStartDate),
                              !.endDate = formatDateUTC(dragAction.initialEndDate)]
        ELSE tasks[i]]

\* The dates a pointer-move of this session writes for a day offset when it
\* is resolved under a type, straight after pointer-down.
DatesResolved(type, dayOffset) ==
    DatesOf(TaskById(handleTaskDragUpdate(TasksAtPointerDown, dragAction.taskId, type,
                         dragAction.initialStartDate, dragAction.initialEndDate,
                         dayOffset),
                     dragAction.taskId))

\* The dates this pointer-move writes when it is the first of its session
\* and the session has the type it has now.
WrittenFromPointerDown == DatesResolved(dragAction.type, lastDayOffset'[1])

\* The day offsets the pointer can give to the session.
SessionOffsets == {DayOffset(x, dragAction.initialX) : x \in PointerXs}

\* A pointer-move of a session whose project window parses, with window and
\* non-working weekdays left as they are.
ResolvedMoveStep ==
    /\ dragAction # Null
    /\ Moves
    /\ parseUTCDateString(projectStart) # Null
    /\ parseUTCDateString(projectEnd) # Null

\* The dragged task already holds the dates this pointer-move writes.
HoldsWrittenDates ==
    /\ TaskById(tasks, dragAction.taskId).startDate = formatDateUTC(WrittenFromPointerDown[1])
    /\ TaskById(tasks, dragAction.taskId).endDate = formatDateUTC(WrittenFromPointerDown[2])

\* C25: within one move or resize session with the project window and the
\* non-working weekdays unchanged, the dates a pointer-move writes depend
\* only on the anchors of the session (initial start, initial end, type at
\* pointer-down) and the day offset: a pointer-move keeps the anchors, writes
\* what it would write straight after pointer-down, leaves every offset
\* resolving to the dates it resolved to before the move, and changes nothing
\* when it is repeated on the dates it has written.
C25_DatesDependOnAnchorsAndOffset ==
    [][ResolvedMoveStep
         => /\ [dragAction' EXCEPT !.type = dragAction.type] = dragAction
            /\ WrittenDates = WrittenFromPointerDown
            /\ \A dayOffset \in SessionOffsets :
                   DatesResolved(dragAction'.type, dayOffset)
                       = DatesResolved(dragAction.type, dayOffset)
            /\ (lastDayOffset' = lastDayOffset /\ HoldsWrittenDates) => (tasks' = tasks)]_vars

-----------------------------------------------------------------------------
(* Export and import of the project file.  A JSON value is a record of its   *)
(* type and its value; undefined has a type only, and so has a file that     *)
(* JSON.parse rejects, of type "unparseable".                                *)

Undefined == [type |-> "undefined"]

JString(s) == [type |-> "string", value |-> s]

JArray(a) == [type |-> "array", value |-> a]

JObject(o) == [type |-> "object", value |-> o]

Unparseable == [type |-> "unparseable"]

\* !v of JavaScript for the values above: undefined and the empty string are
\* falsy, a non-empty string, an array and an object are truthy.
Truthy(v) ==
    CASE v.type = "string" -> Len(v.value) > 0
      [] v.type \in {"array", "object"} -> TRUE
      [] OTHER -> FALSE

\* The project name field, left as App initialises it.
projectName == "Untitled project"

\* Array.from(set), in ascending order.
RECURSIVE ArrayFrom(_)
ArrayFrom(set) ==
    IF set = {} THEN <<>>
    ELSE LET First(m) == <<m>> \o ArrayFrom(set \ {m})
         IN  First(CHOOSE m \in set : \A n \in set : m <= n)

\* dataToSave of handleExport for these values of the state.
dataToSave(pStart, pEnd, ts, nonWorkingDays, visibility) ==
    JObject([projectName |-> JString(projectName),
             projectStart |-> JString(pStart),
             projectEnd |-> JString(pEnd),
             tasks |-> JArray(ts),
             settings |-> JObject([holidays |-> JArray(ArrayFrom(nonWorkingDays)),
                                   columnVisibility |-> JObject(visibility)])])

\* handleExport: the file written for the current state.
handleExport ==
    /\ call' = [op |-> "handleExport",
                document |-> dataToSave(projectStart, projectEnd, tasks, holidays,
                                        columnVisibility)]
    /\ UNCHANGED <<tasks, projectStart, projectEnd, holidays, columnVisibility,
                   zoomIndex, dragPreview, dragAction, reorderState, pointers,
                   previewMoved, lastDayOffset>>

\* The "Basic validation" of handleFileChange.
InvalidFileFormat(data) ==
    \/ data.type # "object"
    \/ ~Truthy(data.value.projectName)
    \/ ~Truthy(data.value.projectStart)
    \/ ~Truthy(data.value.projectEnd)
    \/ data.value.tasks.type # "array"

\* The state reader.onload of handleFileChange leaves: <<tasks, projectStart,
\* projectEnd, holidays, columnVisibility>>; the current one when the import
\* throws.  columnVisibility is merged key by key; every document here has
\* all keys or none.
ImportedState(data) ==
    IF InvalidFileFormat(data)
    THEN <<tasks, projectStart, projectEnd, holidays, columnVisibility>>
    ELSE LET Settings(settings) ==
                 <<data.value.tasks.value, data.value.projectStart.value,
                   data.value.projectEnd.value,
                   IF Truthy(settings) /\ Truthy(settings.value.holidays)
                   THEN {settings.value.holidays.value[i] :
                             i \in DOMAIN settings.value.holidays.value}
                   ELSE holidays,
                   IF Truthy(settings) /\ Truthy(settings.value.columnVisibility)
                   THEN settings.value.columnVisibility.value
                   ELSE columnVisibility>>
         IN  Settings(data.value.settings)

\* handleFileChange and reader.onload for a file with this content; exported
\* tells whether handleExport wrote the file.
handleFileChange(data, exported) ==
    /\ tasks' = ImportedState(data)[1]
    /\ projectStart' = ImportedState(data)[2]
    /\ projectEnd' = ImportedState(data)[3]
    /\ holidays' = ImportedState(data)[4]
    /\ columnVisibility' = ImportedState(data)[5]
    /\ call' = [op |-> "handleFileChange", document |-> data, exported |-> exported,
                error |-> InvalidFileFormat(data),
                before |-> <<tasks, projectStart, projectEnd, holidays,
                             columnVisibility>>]
    /\ UNCHANGED <<zoomIndex, dragPreview, dragAction, reorderState, pointers,
                   previewMoved, lastDayOffset>>

\* Files that are not project files: not JSON, or the exported file less one
\* of its fields, or with tasks that is a string (the text of projectStart),
\* not an array.
MalformedDocument(document, k) ==
    CASE k = 1 -> Unparseable
      [] k = 2 -> [document EXCEPT !.value.projectName = Undefined]
      [] k = 3 -> [document EXCEPT !.value.projectStart = Undefined]
      [] k = 4 -> [document EXCEPT !.value.projectEnd = Undefined]
      [] k = 5 -> [document EXCEPT !.value.tasks = Undefined]
      [] k = 6 -> [document EXCEPT !.value.tasks = JString(document.value.projectStart.value)]

\* The file handleExport writes in the initial state of App, with the short
\* project window.
InitialDocument ==
    dataToSave(formatDateUTC(BaseDay), formatDateUTC(BaseDay + WindowLen - 1),
               <<InitialTasks[1]>>, {0, 6},
               [assignee |-> TRUE, startDate |-> TRUE, endDate |-> TRUE,
                duration |-> TRUE, progress |-> TRUE, manHours |-> FALSE])

\* Edits of the window, of the task's start date and of two weekdays of the
\* settings; export; import of the file just exported (the task may have
\* been edited since), of the initial file, or of a malformed file.
NextImport ==
    \/ \E value \in WindowTexts : ProjectStartChange(value)
    \/ \E value \in {formatDateUTC(BaseDay + WindowLen - 1), <<>>} :
           ProjectEndChange(value)
    \/ \E dayIndex \in {0, 1} : handleHolidayChange(dayIndex)
    \/ \E value \in FieldTexts : TaskDateFieldChange(1, "startDate", value)
    \/ handleExport
    \/ call # Null /\ call.op = "handleExport" /\ handleFileChange(call.document, TRUE)
    \/ handleFileChange(InitialDocument, TRUE)
    \/ \E k \in 1..6 : handleFileChange(MalformedDocument(InitialDocument, k), FALSE)

SpecImport == InitOne /\ [][NextImport]_vars

\* call is the record of an import.
Imported == call # Null /\ call.op = "handleFileChange"

\* The step is an import.
ImportStep == call' # call /\ Imported'

\* The document lacks projectName, projectStart, projectEnd or an array-valued
\* tasks, or is not JSON.
LacksRequiredField(data) ==
    \/ data.type = "unparseable"
    \/ data.value.projectName.type = "undefined"
    \/ data.value.projectStart.type = "undefined"
    \/ data.value.projectEnd.type = "undefined"
    \/ data.value.tasks.type # "array"

\* What the claim says of the state an import leaves.
ImportOutcomeAsClaimed ==
    /\ LacksRequiredField(call.document)
         => /\ call.error
            /\ <<tasks, projectStart, projectEnd, holidays, columnVisibility>>
                   = call.before
    /\ call.exported
         => /\ ~call.error
            /\ projectStart = call.document.value.projectStart.value
            /\ projectEnd = call.document.value.projectEnd.value
            /\ tasks = call.document.value.tasks.value
            /\ holidays
                 = {call.document.value.settings.value.holidays.value[i] :
                      i \in DOMAIN call.document.value.settings.value.holidays.value}

\* C26: an import of a document that lacks projectName, projectStart,
\* projectEnd or an array-valued tasks, or that is not JSON, is an error and
\* leaves the state as it was; a document written by export passes the
\* validation and restores the project window, the task list and the
\* non-working weekdays it holds.
C26_ImportRejectsMalformedRestoresExported ==
    [][ImportStep => ImportOutcomeAsClaimed']_vars

-----------------------------------------------------------------------------
\* C27: a pointer-move of a move session with day offset 0, on a task that
\* lies inside the project window, leaves the task's startDate and endDate
\* as they were at pointer-down.
C27_MoveByZeroKeepsDates ==
    [][(dragAction # Null /\ Moves /\ dragAction.type = "move"
          /\ lastDayOffset' = <<0>> /\ WindowValid /\ AnchorsInsideWindow)
         => WrittenDates = <<dragAction.initialStartDate,
                             dragAction.initialEndDate>>]_vars

-----------------------------------------------------------------------------
(* The task list under add, duplicate, delete and reorder.  An id is the     *)
(* reading of the clock at the time of the operation; call holds the last    *)
(* reading, which the next one is not below.                                 *)

\* The clock when App starts, in milliseconds (any value above the initial
\* ids "1", "2", "3").
FirstClockReading == 1000

\* Milliseconds the clock advances at most while the list is edited.
MaxClockTicks == 2

\* The initial task list of App.
InitialTaskList ==
    <<InitialTasks[1], InitialTasks[2],
      [id |-> "3", name |-> "Task 3", assignee |-> "", startDate |-> <<>>,
       endDate |-> <<>>, progress |-> 0, manHours |-> 0]>>

InitTaskList ==
    /\ tasks = InitialTaskList
    /\ projectStart = formatDateUTC(BaseDay)
    /\ projectEnd = formatDateUTC(BaseDay + WindowLen - 1)
    /\ holidays = {0, 6}
    /\ columnVisibility = [assignee |-> TRUE, startDate |-> FALSE, endDate |-> FALSE,
                           duration |-> TRUE, progress |-> TRUE, manHours |-> FALSE]
    /\ zoomIndex = 3
    /\ dragPreview = Null
    /\ dragAction = Null
    /\ reorderState = Null
    /\ pointers = 0
    /\ previewMoved = FALSE
    /\ lastDayOffset = Null
    /\ call = Null

\* The last reading of the clock.
LastReading == IF call = Null THEN FirstClockReading ELSE call.now

\* Date.now(): the clock does not run backwards, and may not have advanced
\* since the last reading.
DateNow == LastReading..(FirstClockReading + MaxClockTicks)

TaskListFrame ==
    UNCHANGED <<projectStart, projectEnd, holidays, columnVisibility, zoomIndex,
                dragPreview, dragAction, reorderState, pointers, previewMoved,
                lastDayOffset>>

\* handleAddTask with Date.now() = now.
AddTask(now) ==
    /\ Len(tasks) < MaxTasks
    /\ tasks' = Append(tasks, [id |-> ToString(now), name |-> "Task", assignee |-> "",
                               startDate |-> <<>>, endDate |-> <<>>, progress |-> 0,
                               manHours |-> 0])
    /\ call' = [op |-> "handleAddTask", now |-> now]
    /\ TaskListFrame

\* The updater of handleDuplicateTask with Date.now() = now.
handleDuplicateTask(ts, taskId, now) ==
    LET Insert(taskIndex) ==
            SubSeq(ts, 1, taskIndex)
                \o <<[ts[taskIndex] EXCEPT !.id = ToString(now), !.name = "Task (copy)"]>>
                \o SubSeq(ts, taskIndex + 1, Len(ts))
    IN  IF \E i \in DOMAIN ts : ts[i].id = taskId
        THEN Insert(CHOOSE i \in DOMAIN ts :
                        ts[i].id = taskId /\ \A j \in 1..(i - 1) : ts[j].id # taskId)
        ELSE ts

\* The duplicate button of task i.
DuplicateTask(i, now) ==
    /\ Len(tasks) < MaxTasks
    /\ tasks' = handleDuplicateTask(tasks, tasks[i].id, now)
    /\ call' = [op |-> "handleDuplicateTask", now |-> now]
    /\ TaskListFrame

\* The updater of handleDeleteTask.
handleDeleteTask(ts, id) == SelectSeq(ts, LAMBDA task : task.id # id)

\* The delete button of task i.
DeleteTask(i) ==
    /\ tasks' = handleDeleteTask(tasks, tasks[i].id)
    /\ call' = [op |-> "handleDeleteTask", now |-> LastReading]
    /\ TaskListFrame

\* A reorder session of task i released over dropIndex.
ReorderTask(i, dropIndex) ==
    /\ tasks' = handleTaskReorder(tasks, tasks[i].id, dropIndex)
    /\ tasks' # tasks
    /\ call' = [op |-> "handleTaskReorder", now |-> LastReading]
    /\ TaskListFrame

NextTaskList ==
    \/ \E now \in DateNow : AddTask(now)
    \/ \E i \in DOMAIN tasks, now \in DateNow : DuplicateTask(i, now)
    \/ \E i \in DOMAIN tasks : DeleteTask(i)
    \/ \E i \in DOMAIN tasks, dropIndex \in 0..Len(tasks) : ReorderTask(i, dropIndex)

SpecTaskList == InitTaskList /\ [][NextTaskList]_vars

\* C28: task ids are pairwise distinct in every reachable state, after any
\* sequence of add, duplicate, delete and reorder operations from the initial
\* list, operations at the same reading of the clock included.
C28_TaskIdsDistinct ==
    \A i \in DOMAIN tasks, j \in DOMAIN tasks : i # j => tasks[i].id # tasks[j].id

-----------------------------------------------------------------------------
(* The duration field, for a start date on every day of the calendar and     *)
(* under every set of non-working weekdays.                                  *)

\* onChange of the duration field of task i.  With every weekday non-working
\* addWorkingDays does not return for a duration >= 1 and a start date that
\* parses: the handler leaves no state.
DurationFieldEdit(i, newDurationStr) ==
    /\ columnVisibility.duration
    /\ IF newDurationStr # <<>> /\ parseUTCDateString(tasks[i].startDate) # Null
       THEN newDurationStr[1] < 1 \/ holidays # 0..6
       ELSE TRUE
    /\ tasks' = handleDurationChange(tasks, tasks[i], newDurationStr)
    /\ UNCHANGED <<call, projectStart, projectEnd, holidays, columnVisibility, zoomIndex,
                   dragPreview, dragAction, reorderState, pointers, previewMoved,
                   lastDayOffset>>

\* Texts typed into the start date field: a Monday, a Thursday, a Saturday,
\* nothing, a half-typed date.
StartDateTexts ==
    {formatDateUTC(Day(2024, 1, 1)), formatDateUTC(Day(2024, 1, 4)),
     formatDateUTC(Day(2024, 1, 6)), <<>>, <<0>>}

NextDuration ==
    \/ \E dayIndex \in 0..6 : handleHolidayChange(dayIndex)
    \/ \E value \in StartDateTexts : TaskDateFieldChange(1, "startDate", value)
    \/ \E newDurationStr \in DurationTexts : DurationFieldEdit(1, newDurationStr)

SpecDuration == InitOne /\ [][NextDuration]_vars

\* The dates of the task after the step.
DatesAfter == DatesOf(tasks'[1])

\* C29 (of the steps that change the end date; a duration edit that leaves
\* it is no step): for every start date, every set of non-working weekdays that leaves
\* a weekday working and every n >= 1, the end date a duration edit to n
\* writes, addWorkingDays(start, n), is a working day and closes a range of
\* exactly n working days from the start; the displayed duration is n and
\* the end date is not before the start date.
C29_DurationEditGivesDuration ==
    [][\A n \in 1..MaxDuration :
          (/\ tasks'[1].endDate # tasks[1].endDate
           /\ parseUTCDateString(tasks[1].startDate) # Null
           /\ DurationFieldEdit(1, <<n>>))
            => /\ tasks'[1].startDate = tasks[1].startDate
               /\ DatesAfter[2] = addWorkingDays(DatesAfter[1], n, holidays)
               /\ Working(DatesAfter[2])
               /\ calculateWorkingDays(DatesAfter[1], DatesAfter[2], holidays) = n
               /\ Cardinality({d \in DatesAfter[1]..DatesAfter[2] : Working(d)}) = n
               /\ getTaskDuration(tasks'[1].startDate, tasks'[1].endDate) = n
               /\ DatesAfter[2] >= DatesAfter[1]]_vars

\* With Saturday and Sunday non-working, a duration of 2 typed for a task
\* that starts on Saturday 2024/01/06 has put its end on Tuesday 2024/01/09.
C29_TwoDaysFromSaturday ==
    /\ holidays = {0, 6}
    /\ tasks[1].startDate = formatDateUTC(Day(2024, 1, 6))
    /\ tasks[1].endDate = formatDateUTC(Day(2024, 1, 9))

-----------------------------------------------------------------------------
\* C30: in every reachable state the set of non-working weekdays leaves at
\* least one weekday working: no sequence of toggles in the settings dialog
\* makes all seven weekdays 0..6 non-working.
C30_SomeWeekdayWorking == \E dayIndex \in 0..6 : dayIndex \notin holidays

====
